---------------------------- MODULE Spec2Model ----------------------------
(*************************************************************************)
(* A model of the Pomodoro/task backend: the relational store (users,    *)
(* settings, categories, tags, tasks, sessions), the bearer tokens, and  *)
(* one action per request handler of the four routers.  Optional values  *)
(* (Python's None / a value) are sequences of length 0 / 1; times and    *)
(* calendar dates are day numbers.                                       *)
(*************************************************************************)
EXTENDS Integers, Sequences, FiniteSets, TLC

\* ------------------------------------------------------------ bounds
MaxUsers     == 2
MaxTasks     == 2
MaxSessions  == 2
MaxPomodoros == 2
MaxDay       == 4
MaxWork      == 3
MaxWrites    == 1

\* ------------------------------------------------------------ state
VARIABLES
    users,       \* User table: id -> [username, email, password]
    settings,    \* UserSetting table: id -> [user, the five settings]
    tokens,      \* the bearer tokens create_token has issued
    categories,  \* Category table: id -> [user]
    tags,        \* Tag table: id -> [user]
    tasks,       \* Task table: id -> row
    sessions,    \* PomodoroSession table: id -> row
    nextId,      \* the store's auto-increment counters, one per table
    now,         \* the server clock, in days
    resp,        \* the response of the last request
    hist,        \* the log of the session calls made so far
    inflight     \* the requests being served step by step: slot -> its locals

vars == <<users, settings, tokens, categories, tags, tasks, sessions,
          nextId, now, resp, hist, inflight>>

store == <<users, settings, tokens, categories, tags, tasks, sessions, nextId>>

\* ------------------------------------------------------------ values
None == << >>

Some(x) == <<x>>

Val(o) == o[1]

\* Python truthiness of an Optional[int]: None and 0 are false.
Truthy(o) == o /= None /\ Val(o) /= 0

SESSION_TYPES == {"work", "short_break", "long_break"}

STATUS_CHOICES == {"pending", "in_progress", "completed"}

PRIORITY_CHOICES == {"low", "medium", "high"}

TokenDays == 7

UserIds == 1..MaxUsers

TaskIds == 1..MaxTasks

SessionIds == 1..MaxSessions

\* The slots in which a request is served step by step, all of them free.
Slots == {1, 2}

NoneInFlight == [r \in Slots |-> None]

\* A function with one key removed / added.
Without(f, k) == [x \in DOMAIN f \ {k} |-> f[x]]

With(f, k, v) == [x \in DOMAIN f \cup {k} |-> IF x = k THEN v ELSE f[x]]

\* ------------------------------------------------------------ tokens
\* jwt.decode: the signature must verify and the expiry lie in the future.
jwt_decode_no_expiry(tok) ==
    IF tok.sig = "ok" THEN Some(tok.user_id) ELSE None

jwt_decode(tok) ==
    IF tok.sig = "ok" /\ now < tok.exp THEN Some(tok.user_id) ELSE None

get_user_id_from_token(tok) ==
    IF tok = None THEN None ELSE jwt_decode(Val(tok))

AuthBearer_authenticate(tok) ==
    IF tok = None THEN None ELSE jwt_decode(Val(tok))

create_token(user_id) == [user_id |-> user_id, exp |-> now + TokenDays, sig |-> "ok"]

\* ------------------------------------------------------------ responses
\* body: the stored resources a response shows, as <<kind, id>> pairs;
\* data: what else it carries (an ordered list, a time series, a summary).
Response(op, uid, status, id, body, data) ==
    [op |-> op, uid |-> uid, status |-> status, id |-> id, body |-> body,
     data |-> data]

\* get_object_or_404 raises Http404, which is not the model's DoesNotExist.
get_object_or_404_any_owner(table, id, owner) ==
    IF id \in DOMAIN table THEN "none" ELSE "Http404"

get_object_or_404(table, id, owner) ==
    IF id \in DOMAIN table /\ table[id].user = owner THEN "none" ELSE "Http404"

\* The except clauses of the session handlers: DoesNotExist -> 404, any other
\* exception -> 500.
pomodoro_except(exc) == IF exc = "DoesNotExist" THEN 404 ELSE 500

\* A router without a try block: the API's handlers answer Http404 with 404
\* and every other exception with 500.
api_exception_handler(exc) == IF exc = "Http404" THEN 404 ELSE 500


\* ------------------------------------------------------------ sessions
\* timezone.make_aware: a naive end time is read in the server's zone.
make_aware(t) == [t EXCEPT !.tz = "aware"]

\* The body of a session response: the session and the task it names.
session_body(sid, task) ==
    {<<"session", sid>>} \cup (IF task = None THEN {} ELSE {<<"task", Val(task)>>})

\* complete_session's test for bumping the linked task's counter.
completes_pomodoro_any(session) == session.type = "work" /\ session.task /= None

completes_pomodoro_of_any_type(session) ==
    session.is_completed /\ session.task /= None

completes_pomodoro(session) ==
    session.is_completed /\ session.type = "work" /\ session.task /= None

\* delete_session's test for the session having been counted on its task.
was_counted(session) ==
    session.is_completed /\ session.type = "work" /\ session.task /= None

\* delete_session's decrement, which stops at 0.
decrement_unfloored(c) == c - 1

decrement(c) == IF c > 0 THEN c - 1 ELSE c

start_session(tok, data) ==
    LET user_id == get_user_id_from_token(tok)
        uid     == Val(user_id)
        exc     == IF uid \notin DOMAIN users THEN "Http404"
                   ELSE IF Truthy(data.task_id)
                        THEN get_object_or_404(tasks, Val(data.task_id), uid)
                        ELSE "none"
        task    == IF Truthy(data.task_id) THEN data.task_id ELSE None
        sid     == nextId.session
    IN  IF ~Truthy(user_id)
        THEN /\ resp' = Response("start_session", None, 401, 0, {}, << >>)
             /\ UNCHANGED store
        ELSE IF exc /= "none"
        THEN /\ resp' = Response("start_session", user_id, pomodoro_except(exc), 0, {}, << >>)
             /\ UNCHANGED store
        ELSE /\ sessions' = With(sessions, sid,
                                 [user |-> uid, task |-> task, start_time |-> now,
                                  end_time |-> None, duration |-> data.duration,
                                  type |-> data.type, is_completed |-> FALSE])
             /\ nextId' = [nextId EXCEPT !.session = @ + 1]
             /\ resp' = Response("start_session", user_id, 200, sid, session_body(sid, task), << >>)
             /\ UNCHANGED <<users, settings, tokens, categories, tags, tasks>>

complete_session(tok, session_id, data) ==
    LET user_id  == get_user_id_from_token(tok)
        uid      == Val(user_id)
        exc      == get_object_or_404(sessions, session_id, uid)
        end_time == IF data.end_time.tz = "naive"
                    THEN make_aware(data.end_time) ELSE data.end_time
        session  == [sessions[session_id] EXCEPT !.end_time = Some(end_time),
                                                 !.is_completed = data.is_completed]
        t        == Val(session.task)
    IN  IF ~Truthy(user_id)
        THEN /\ resp' = Response("complete_session", None, 401, session_id, {}, << >>)
             /\ UNCHANGED store
        ELSE IF exc /= "none"
        THEN /\ resp' = Response("complete_session", user_id, pomodoro_except(exc),
                                 session_id, {}, << >>)
             /\ UNCHANGED store
        ELSE /\ sessions' = [sessions EXCEPT ![session_id] = session]
             /\ tasks' = IF completes_pomodoro(session)
                         THEN [tasks EXCEPT ![t].completed_pomodoros = @ + 1,
                                            ![t].updated_at = now]
                         ELSE tasks
             /\ resp' = Response("complete_session", user_id, 200, session_id,
                                 session_body(session_id, session.task), << >>)
             /\ UNCHANGED <<users, settings, tokens, categories, tags, nextId>>

delete_session(tok, session_id) ==
    LET user_id == get_user_id_from_token(tok)
        uid     == Val(user_id)
        exc     == get_object_or_404(sessions, session_id, uid)
        session == sessions[session_id]
        t       == Val(session.task)
    IN  IF ~Truthy(user_id)
        THEN /\ resp' = Response("delete_session", None, 401, session_id, {}, << >>)
             /\ UNCHANGED store
        ELSE IF exc /= "none"
        THEN /\ resp' = Response("delete_session", user_id, pomodoro_except(exc),
                                 session_id, {}, << >>)
             /\ UNCHANGED store
        ELSE /\ tasks' = IF was_counted(session)
                            /\ decrement(tasks[t].completed_pomodoros)
                                  /= tasks[t].completed_pomodoros
                         THEN [tasks EXCEPT ![t].completed_pomodoros = decrement(@),
                                            ![t].updated_at = now]
                         ELSE tasks
             /\ sessions' = Without(sessions, session_id)
             /\ resp' = Response("delete_session", user_id, 200, session_id, {}, << >>)
             /\ UNCHANGED <<users, settings, tokens, categories, tags, nextId>>


\* ------------------------------------------------------------ tasks
\* Python truthiness of an Optional[str] / Optional text: None and "" are false.
TruthyStr(o) == o /= None /\ Val(o) /= ""

TruthyText(o) == o /= None /\ Val(o) /= << >>

\* Texts are sequences of letters; icontains compares them case-folded.
lower(c) == IF c = "A" THEN "a" ELSE IF c = "B" THEN "b" ELSE c

casefold(text) == [i \in 1..Len(text) |-> lower(text[i])]

icontains(text, pat) ==
    \E i \in 0..(Len(text) - Len(pat)) :
        casefold(SubSeq(text, i + 1, i + Len(pat))) = casefold(pat)

\* PositiveIntegerField: the store refuses a negative value.
store_rejects_nothing(row) == FALSE

store_rejects(row) == row.estimated_pomodoros < 0 \/ row.completed_pomodoros < 0

\* The body of a task response: the task, its category and its tags.
task_body(tid, row) ==
    {<<"task", tid>>}
    \cup (IF row.category = None THEN {} ELSE {<<"category", Val(row.category)>>})
    \cup {<<"tag", g>> : g \in row.tags}

\* Tag.objects.filter(id__in=tag_ids, user=user)
own_tags(tag_ids, uid) == {g \in tag_ids : g \in DOMAIN tags /\ tags[g].user = uid}

\* order_by("-priority", "due_date", "created_at"): the priority column is
\* a string and compares by its letters ("high" < "low" < "medium"), a
\* missing due date sorts first (MySQL), and rows equal on all three keys
\* come in any order.
collation(priority) ==
    IF priority = "high" THEN 1 ELSE IF priority = "low" THEN 2 ELSE 3

sorts_before(a, b) ==
    LET due_before == \/ a.due_date = None /\ b.due_date /= None
                      \/ /\ a.due_date /= None /\ b.due_date /= None
                         /\ Val(a.due_date) < Val(b.due_date)
    IN  \/ collation(a.priority) > collation(b.priority)
        \/ /\ a.priority = b.priority
           /\ \/ due_before
              \/ a.due_date = b.due_date /\ a.created_at < b.created_at

order_by(query) ==
    {listing \in [1..Cardinality(query) -> query] :
        /\ \A i, j \in DOMAIN listing : i /= j => listing[i] /= listing[j]
        /\ \A i, j \in DOMAIN listing :
              i < j => ~sorts_before(tasks[listing[j]], tasks[listing[i]])}

list_tasks(tok, status, priority, category_id, search) ==
    LET user_id == get_user_id_from_token(tok)
        uid     == Val(user_id)
        query   == {t \in DOMAIN tasks :
                       /\ tasks[t].user = uid
                       /\ TruthyStr(status) => tasks[t].status = Val(status)
                       /\ TruthyStr(priority) => tasks[t].priority = Val(priority)
                       /\ Truthy(category_id) => tasks[t].category = category_id
                       /\ TruthyText(search) =>
                            \/ icontains(tasks[t].title, Val(search))
                            \/ /\ tasks[t].description /= None
                               /\ icontains(Val(tasks[t].description), Val(search))}
    IN  /\ IF ~Truthy(AuthBearer_authenticate(tok)) \/ ~Truthy(user_id)
           THEN resp' = Response("list_tasks", None, 401, 0, {}, << >>)
           ELSE \E listing \in order_by(query) :
                   resp' = Response("list_tasks", user_id, 200, 0,
                                    UNION {task_body(t, tasks[t]) : t \in query},
                                    listing)
        /\ UNCHANGED store

create_task(tok, task_data) ==
    LET user_id  == get_user_id_from_token(tok)
        uid      == Val(user_id)
        exc      == IF uid \notin DOMAIN users THEN "Http404"
                    ELSE IF Truthy(task_data.category_id)
                         THEN get_object_or_404(categories, Val(task_data.category_id), uid)
                         ELSE "none"
        category == IF Truthy(task_data.category_id) THEN task_data.category_id ELSE None
        tid      == nextId.task
        row      == [user |-> uid, title |-> task_data.title,
                     description |-> task_data.description,
                     status |-> task_data.status, priority |-> task_data.priority,
                     due_date |-> task_data.due_date,
                     estimated_pomodoros |-> task_data.estimated_pomodoros,
                     completed_pomodoros |-> 0,
                     created_at |-> now, updated_at |-> now,
                     category |-> category,
                     tags |-> IF task_data.tag_ids /= {}
                              THEN own_tags(task_data.tag_ids, uid) ELSE {}]
    IN  IF ~Truthy(AuthBearer_authenticate(tok)) \/ ~Truthy(user_id)
        THEN /\ resp' = Response("create_task", None, 401, 0, {}, << >>)
             /\ UNCHANGED store
        ELSE IF exc /= "none"
        THEN /\ resp' = Response("create_task", user_id, api_exception_handler(exc),
                                 0, {}, << >>)
             /\ UNCHANGED store
        ELSE IF store_rejects(row)
        THEN /\ resp' = Response("create_task", user_id,
                                 api_exception_handler("DataError"), 0, {}, << >>)
             /\ UNCHANGED store
        ELSE /\ tasks' = With(tasks, tid, row)
             /\ nextId' = [nextId EXCEPT !.task = @ + 1]
             /\ resp' = Response("create_task", user_id, 200, tid, task_body(tid, row), row)
             /\ UNCHANGED <<users, settings, tokens, categories, tags, sessions>>

get_task(tok, task_id) ==
    LET user_id == get_user_id_from_token(tok)
        uid     == Val(user_id)
        exc     == get_object_or_404(tasks, task_id, uid)
    IN  /\ resp' = IF ~Truthy(AuthBearer_authenticate(tok)) \/ ~Truthy(user_id)
                   THEN Response("get_task", None, 401, task_id, {}, << >>)
                   ELSE IF exc /= "none"
                   THEN Response("get_task", user_id, api_exception_handler(exc),
                                 task_id, {}, << >>)
                   ELSE Response("get_task", user_id, 200, task_id,
                                 task_body(task_id, tasks[task_id]), tasks[task_id])
        /\ UNCHANGED store

\* The fields of the loaded task an update request overwrites, before the
\* category and the tags are looked at.
update_fields_unconditional(task, task_data) ==
    [task EXCEPT
       !.title = IF task_data.title /= None THEN Val(task_data.title) ELSE << >>,
       !.description = task_data.description,
       !.status = IF task_data.status /= None THEN Val(task_data.status) ELSE "pending",
       !.priority = IF task_data.priority /= None THEN Val(task_data.priority)
                    ELSE "medium",
       !.due_date = task_data.due_date,
       !.estimated_pomodoros = IF task_data.estimated_pomodoros /= None
                               THEN Val(task_data.estimated_pomodoros) ELSE 1,
       !.completed_pomodoros = IF task_data.completed_pomodoros /= None
                               THEN Val(task_data.completed_pomodoros) ELSE 0]

update_fields(task, task_data) ==
    [task EXCEPT
       !.title = IF task_data.title /= None THEN Val(task_data.title) ELSE @,
       !.description = IF task_data.description /= None THEN task_data.description ELSE @,
       !.status = IF task_data.status /= None THEN Val(task_data.status) ELSE @,
       !.priority = IF task_data.priority /= None THEN Val(task_data.priority) ELSE @,
       !.due_date = IF task_data.due_date /= None THEN task_data.due_date ELSE @,
       !.estimated_pomodoros = IF task_data.estimated_pomodoros /= None
                               THEN Val(task_data.estimated_pomodoros) ELSE @,
       !.completed_pomodoros = IF task_data.completed_pomodoros /= None
                               THEN Val(task_data.completed_pomodoros) ELSE @]

\* The category block: 0 clears the category, another id (looked up by the
\* caller) becomes the category, no id leaves it.
assign_category_never_cleared(task, task_data) ==
    [task EXCEPT !.category =
        IF task_data.category_id = None \/ Val(task_data.category_id) = 0 THEN @
        ELSE task_data.category_id]

assign_category(task, task_data) ==
    [task EXCEPT !.category =
        IF task_data.category_id = None THEN @
        ELSE IF Val(task_data.category_id) = 0 THEN None
        ELSE task_data.category_id]

update_task(tok, task_id, task_data) ==
    LET user_id == get_user_id_from_token(tok)
        uid     == Val(user_id)
        exc     == get_object_or_404(tasks, task_id, uid)
        task1   == update_fields(tasks[task_id], task_data)
        cat_exc == IF task_data.category_id /= None /\ Val(task_data.category_id) /= 0
                   THEN get_object_or_404(categories, Val(task_data.category_id), uid)
                   ELSE "none"
        task2   == assign_category(task1, task_data)
        \* task.tags.set(...) writes the tag rows at once, before task.save()
        tagset  == IF task_data.tag_ids /= None
                   THEN own_tags(Val(task_data.tag_ids), uid) ELSE tasks[task_id].tags
        saved   == [task2 EXCEPT !.tags = tagset, !.updated_at = now]
    IN  IF ~Truthy(AuthBearer_authenticate(tok)) \/ ~Truthy(user_id)
        THEN /\ resp' = Response("update_task", None, 401, task_id, {}, << >>)
             /\ UNCHANGED store
        ELSE IF exc /= "none"
        THEN /\ resp' = Response("update_task", user_id, api_exception_handler(exc),
                                 task_id, {}, << >>)
             /\ UNCHANGED store
        ELSE IF cat_exc /= "none"
        THEN /\ resp' = Response("update_task", user_id, api_exception_handler(cat_exc),
                                 task_id, {}, << >>)
             /\ UNCHANGED store
        ELSE IF store_rejects(task2)
        THEN /\ tasks' = [tasks EXCEPT ![task_id].tags = tagset]
             /\ resp' = Response("update_task", user_id,
                                 api_exception_handler("DataError"), task_id, {}, << >>)
             /\ UNCHANGED <<users, settings, tokens, categories, tags, sessions, nextId>>
        ELSE /\ tasks' = [tasks EXCEPT ![task_id] = saved]
             /\ resp' = Response("update_task", user_id, 200, task_id,
                                 task_body(task_id, saved), saved)
             /\ UNCHANGED <<users, settings, tokens, categories, tags, sessions, nextId>>

\* PomodoroSession.task is on_delete=SET_NULL: the sessions once the task
\* is deleted.
SET_NULL_cascading(task_id) ==
    [s \in {s \in DOMAIN sessions : sessions[s].task /= Some(task_id)} |-> sessions[s]]

SET_NULL(task_id) ==
    [s \in DOMAIN sessions |->
        IF sessions[s].task = Some(task_id)
        THEN [sessions[s] EXCEPT !.task = None] ELSE sessions[s]]

delete_task(tok, task_id) ==
    LET user_id == get_user_id_from_token(tok)
        uid     == Val(user_id)
        exc     == get_object_or_404(tasks, task_id, uid)
    IN  IF ~Truthy(AuthBearer_authenticate(tok)) \/ ~Truthy(user_id)
        THEN /\ resp' = Response("delete_task", None, 401, task_id, {}, << >>)
             /\ UNCHANGED store
        ELSE IF exc /= "none"
        THEN /\ resp' = Response("delete_task", user_id, api_exception_handler(exc),
                                 task_id, {}, << >>)
             /\ UNCHANGED store
        ELSE /\ tasks' = Without(tasks, task_id)
             /\ sessions' = SET_NULL(task_id)
             /\ resp' = Response("delete_task", user_id, 200, task_id, {}, << >>)
             /\ UNCHANGED <<users, settings, tokens, categories, tags, nextId>>

complete_task(tok, task_id) ==
    LET user_id == get_user_id_from_token(tok)
        uid     == Val(user_id)
        exc     == get_object_or_404(tasks, task_id, uid)
    IN  IF ~Truthy(AuthBearer_authenticate(tok)) \/ ~Truthy(user_id)
        THEN /\ resp' = Response("complete_task", None, 401, task_id, {}, << >>)
             /\ UNCHANGED store
        ELSE IF exc /= "none"
        THEN /\ resp' = Response("complete_task", user_id, api_exception_handler(exc),
                                 task_id, {}, << >>)
             /\ UNCHANGED store
        ELSE /\ tasks' = [tasks EXCEPT ![task_id].status = "completed",
                                       ![task_id].updated_at = now]
             /\ resp' = Response("complete_task", user_id, 200, task_id, {}, << >>)
             /\ UNCHANGED <<users, settings, tokens, categories, tags, sessions, nextId>>


\* ------------------------------------------------------------ categories

list_categories(tok) ==
    LET user_id == get_user_id_from_token(tok)
        uid     == Val(user_id)
    IN  /\ resp' = IF ~Truthy(AuthBearer_authenticate(tok)) \/ ~Truthy(user_id)
                   THEN Response("list_categories", None, 401, 0, {}, << >>)
                   ELSE Response("list_categories", user_id, 200, 0,
                                 {<<"category", c>> : c \in {x \in DOMAIN categories :
                                                           categories[x].user = uid}}, << >>)
        /\ UNCHANGED store

create_category(tok, data) ==
    LET user_id == get_user_id_from_token(tok)
        uid     == Val(user_id)
        cid     == nextId.category
    IN  IF ~Truthy(AuthBearer_authenticate(tok)) \/ ~Truthy(user_id)
        THEN /\ resp' = Response("create_category", None, 401, 0, {}, << >>)
             /\ UNCHANGED store
        ELSE IF uid \notin DOMAIN users
        THEN /\ resp' = Response("create_category", user_id, api_exception_handler("Http404"),
                                 0, {}, << >>)
             /\ UNCHANGED store
        ELSE /\ categories' = With(categories, cid, [user |-> uid, name |-> data.name,
                                                color_code |-> data.color_code])
             /\ nextId' = [nextId EXCEPT !.category = @ + 1]
             /\ resp' = Response("create_category", user_id, 200, cid, {<<"category", cid>>}, << >>)
             /\ UNCHANGED <<users, settings, tokens, tags, tasks, sessions>>

update_category(tok, category_id, data) ==
    LET user_id == get_user_id_from_token(tok)
        uid     == Val(user_id)
        exc     == get_object_or_404(categories, category_id, uid)
    IN  IF ~Truthy(AuthBearer_authenticate(tok)) \/ ~Truthy(user_id)
        THEN /\ resp' = Response("update_category", None, 401, category_id, {}, << >>)
             /\ UNCHANGED store
        ELSE IF exc /= "none"
        THEN /\ resp' = Response("update_category", user_id, api_exception_handler(exc),
                                 category_id, {}, << >>)
             /\ UNCHANGED store
        ELSE /\ categories' = [categories EXCEPT ![category_id].name = data.name,
                                            ![category_id].color_code = data.color_code]
             /\ resp' = Response("update_category", user_id, 200, category_id,
                                 {<<"category", category_id>>}, << >>)
             /\ UNCHANGED <<users, settings, tokens, tags, tasks, sessions, nextId>>

\* The tasks once those of the category have been set to no category.
uncategorize_cascading(category_id) ==
    [t \in {t \in DOMAIN tasks : tasks[t].category /= Some(category_id)} |-> tasks[t]]

uncategorize(category_id) ==
    [t \in DOMAIN tasks |->
        IF tasks[t].category = Some(category_id)
        THEN [tasks[t] EXCEPT !.category = None] ELSE tasks[t]]

delete_category(tok, category_id) ==
    LET user_id == get_user_id_from_token(tok)
        uid     == Val(user_id)
        exc     == get_object_or_404(categories, category_id, uid)
    IN  IF ~Truthy(AuthBearer_authenticate(tok)) \/ ~Truthy(user_id)
        THEN /\ resp' = Response("delete_category", None, 401, category_id, {}, << >>)
             /\ UNCHANGED store
        ELSE IF exc /= "none"
        THEN /\ resp' = Response("delete_category", user_id, api_exception_handler(exc),
                                 category_id, {}, << >>)
             /\ UNCHANGED store
        ELSE
             \* Task.objects.filter(category=category).update(category=None)
             /\ tasks' = uncategorize(category_id)
             /\ categories' = Without(categories, category_id)
             /\ resp' = Response("delete_category", user_id, 200, category_id, {}, << >>)
             /\ UNCHANGED <<users, settings, tokens, tags, sessions, nextId>>

\* ------------------------------------------------------------ tags

list_tags(tok) ==
    LET user_id == get_user_id_from_token(tok)
        uid     == Val(user_id)
    IN  /\ resp' = IF ~Truthy(AuthBearer_authenticate(tok)) \/ ~Truthy(user_id)
                   THEN Response("list_tags", None, 401, 0, {}, << >>)
                   ELSE Response("list_tags", user_id, 200, 0,
                                 {<<"tag", c>> : c \in {x \in DOMAIN tags :
                                                           tags[x].user = uid}}, << >>)
        /\ UNCHANGED store

create_tag(tok, data) ==
    LET user_id == get_user_id_from_token(tok)
        uid     == Val(user_id)
        cid     == nextId.tag
    IN  IF ~Truthy(AuthBearer_authenticate(tok)) \/ ~Truthy(user_id)
        THEN /\ resp' = Response("create_tag", None, 401, 0, {}, << >>)
             /\ UNCHANGED store
        ELSE IF uid \notin DOMAIN users
        THEN /\ resp' = Response("create_tag", user_id, api_exception_handler("Http404"),
                                 0, {}, << >>)
             /\ UNCHANGED store
        ELSE /\ tags' = With(tags, cid, [user |-> uid, name |-> data.name,
                                                color_code |-> data.color_code])
             /\ nextId' = [nextId EXCEPT !.tag = @ + 1]
             /\ resp' = Response("create_tag", user_id, 200, cid, {<<"tag", cid>>}, << >>)
             /\ UNCHANGED <<users, settings, tokens, categories, tasks, sessions>>

update_tag(tok, tag_id, data) ==
    LET user_id == get_user_id_from_token(tok)
        uid     == Val(user_id)
        exc     == get_object_or_404(tags, tag_id, uid)
    IN  IF ~Truthy(AuthBearer_authenticate(tok)) \/ ~Truthy(user_id)
        THEN /\ resp' = Response("update_tag", None, 401, tag_id, {}, << >>)
             /\ UNCHANGED store
        ELSE IF exc /= "none"
        THEN /\ resp' = Response("update_tag", user_id, api_exception_handler(exc),
                                 tag_id, {}, << >>)
             /\ UNCHANGED store
        ELSE /\ tags' = [tags EXCEPT ![tag_id].name = data.name,
                                            ![tag_id].color_code = data.color_code]
             /\ resp' = Response("update_tag", user_id, 200, tag_id,
                                 {<<"tag", tag_id>>}, << >>)
             /\ UNCHANGED <<users, settings, tokens, categories, tasks, sessions, nextId>>

\* The tasks once the tag has been removed from those that carry it.
untag_clearing(tag_id) ==
    [t \in DOMAIN tasks |->
        IF tag_id \in tasks[t].tags THEN [tasks[t] EXCEPT !.tags = {}] ELSE tasks[t]]

untag(tag_id) ==
    [t \in DOMAIN tasks |-> [tasks[t] EXCEPT !.tags = @ \ {tag_id}]]

delete_tag(tok, tag_id) ==
    LET user_id == get_user_id_from_token(tok)
        uid     == Val(user_id)
        exc     == get_object_or_404(tags, tag_id, uid)
    IN  IF ~Truthy(AuthBearer_authenticate(tok)) \/ ~Truthy(user_id)
        THEN /\ resp' = Response("delete_tag", None, 401, tag_id, {}, << >>)
             /\ UNCHANGED store
        ELSE IF exc /= "none"
        THEN /\ resp' = Response("delete_tag", user_id, api_exception_handler(exc),
                                 tag_id, {}, << >>)
             /\ UNCHANGED store
        ELSE
             \* for task in tag.tasks.all(): task.tags.remove(tag)
             /\ tasks' = untag(tag_id)
             /\ tags' = Without(tags, tag_id)
             /\ resp' = Response("delete_tag", user_id, 200, tag_id, {}, << >>)
             /\ UNCHANGED <<users, settings, tokens, categories, sessions, nextId>>


\* ------------------------------------------------------------ history and stats
\* The user's sessions started within the trailing window of `days` days.
window_sessions(uid, days) ==
    {s \in DOMAIN sessions :
        sessions[s].user = uid /\ sessions[s].start_time >= now - days}

get_history(tok, days, task_id) ==
    LET user_id == get_user_id_from_token(tok)
        uid     == Val(user_id)
        query   == {s \in window_sessions(uid, days) :
                       Truthy(task_id) => sessions[s].task = task_id}
    IN  /\ resp' = IF ~Truthy(user_id)
                   THEN Response("get_history", None, 401, 0, {}, << >>)
                   ELSE Response("get_history", user_id, 200, 0,
                                 UNION {session_body(s, sessions[s].task) : s \in query},
                                 << >>)
        /\ UNCHANGED store

\* round(x, 1) of a quotient n / d, in tenths: to the nearest tenth, a tie
\* to the even one.
round1(n, d) ==
    LET q == (10 * n) \div d
        r == (10 * n) % d
    IN  IF 2 * r > d \/ (2 * r = d /\ q % 2 = 1) THEN q + 1 ELSE q

\* completed_sessions / total_sessions if total_sessions > 0 else 0, then
\* round(completion_rate, 2): in hundredths.
completion_rate_floored(completed_sessions, total_sessions) ==
    IF total_sessions > 0 THEN (100 * completed_sessions) \div total_sessions ELSE 0

completion_rate(completed_sessions, total_sessions) ==
    IF total_sessions > 0 THEN round1(10 * completed_sessions, total_sessions) ELSE 0

\* The largest element of a non-empty set of integers.
SetMax(S) == CHOOSE x \in S : \A y \in S : y <= x

get_stats(tok, days) ==
    LET user_id   == get_user_id_from_token(tok)
        uid       == Val(user_id)
        all       == window_sessions(uid, days)
        completed == {s \in all : sessions[s].is_completed}
        work      == {s \in completed : sessions[s].type = "work"}
        on_day(d) == Cardinality({s \in work : sessions[s].start_time = d})
        work_days == {sessions[s].start_time : s \in work}
        \* max() keeps the first maximum; the rows come newest first
        best_days == {d \in work_days : \A e \in work_days : on_day(e) <= on_day(d)}
        most_productive_day == IF work = {} THEN None ELSE Some(SetMax(best_days))
        task_sessions == {s \in work : sessions[s].task /= None}
        of_task(t) == Cardinality({s \in task_sessions : sessions[s].task = Some(t)})
        focus     == {Val(sessions[s].task) : s \in task_sessions}
        \* order_by("-count").first(): any task with the greatest count
        best      == {t \in focus : \A o \in focus : of_task(o) <= of_task(t)}
        summary(task) ==
            [total_sessions |-> Cardinality(all),
             total_completed |-> Cardinality(completed),
             \* round(completion_rate, 2), in hundredths
             completion_rate |-> completion_rate(Cardinality(completed),
                                                 Cardinality(all)),
             work_sessions |-> Cardinality(work),
             most_productive_day |-> most_productive_day,
             most_focused_task_id |-> task]
        shown(task) ==
            {<<"session", s>> : s \in all}
            \cup (IF task = None THEN {} ELSE {<<"task", Val(task)>>})
    IN  /\ IF ~Truthy(user_id)
           THEN resp' = Response("get_stats", None, 401, 0, {}, << >>)
           ELSE IF best = {}
           THEN resp' = Response("get_stats", user_id, 200, 0, shown(None), summary(None))
           ELSE \E t \in best :
                   resp' = Response("get_stats", user_id, 200, 0,
                                    shown(Some(t)), summary(Some(t)))
        /\ UNCHANGED store

\* ------------------------------------------------------------ analytics
\* The dates start, start + 1, ..., end in ascending order (empty if end < start).
date_range(start, end) == [i \in 1..(end - start + 1) |-> start + i - 1]

\* The time-series loop: one entry per date from start_date to end_date,
\* holding the day's count, or 0 for a day the counts do not mention.
time_series(start_date, end_date, counts) ==
    LET dates == date_range(start_date, end_date)
    IN  [i \in 1..Len(dates) |->
            [date |-> dates[i],
             value |-> IF dates[i] \in DOMAIN counts THEN counts[dates[i]] ELSE 0]]

\* Whether the user has a completed work session started on day d.
has_sessions(uid, d) ==
    \E s \in DOMAIN sessions :
        /\ sessions[s].user = uid /\ sessions[s].start_time = d
        /\ sessions[s].type = "work" /\ sessions[s].is_completed

\* The streak loop: back from date_check while the day has sessions and is
\* not before start_date.
streak_loop_no_break(uid, date_check, start_date) ==
    Cardinality({d \in start_date..date_check : has_sessions(uid, d)})

RECURSIVE streak_loop(_, _, _)
streak_loop(uid, date_check, start_date) ==
    IF date_check >= start_date /\ has_sessions(uid, date_check)
    THEN 1 + streak_loop(uid, date_check - 1, start_date)
    ELSE 0

\* get_analytics for the authenticated user: the window ends today and
\* starts `days` days earlier.
analytics(op, uid, days) ==
    LET end_date   == now
        start_date == end_date - days
        in_window(d) == start_date <= d /\ d <= end_date
        pomodoro_sessions ==
            {s \in DOMAIN sessions :
                /\ sessions[s].user = uid
                /\ in_window(sessions[s].start_time)
                /\ sessions[s].is_completed}
        work       == {s \in pomodoro_sessions : sessions[s].type = "work"}
        window_tasks == {t \in DOMAIN tasks :
                           tasks[t].user = uid /\ in_window(tasks[t].created_at)}
        done       == {t \in window_tasks : tasks[t].status = "completed"}
        pomodoros_on(d) == Cardinality({s \in work : sessions[s].start_time = d})
        tasks_on(d) == Cardinality({t \in done : tasks[t].updated_at = d})
        \* the grouped counts: one row per day that has any
        pomodoro_counts == [d \in {sessions[s].start_time : s \in work} |-> pomodoros_on(d)]
        task_counts == [d \in {tasks[t].updated_at : t \in done} |-> tasks_on(d)]
        streak     == streak_loop(uid, end_date, start_date)
        dates      == date_range(start_date, end_date)
        daily_stats ==
            SelectSeq([i \in 1..Len(dates) |->
                          [date |-> dates[i], pomodoros |-> pomodoros_on(dates[i]),
                           tasks_completed |-> tasks_on(dates[i])]],
                      LAMBDA e : e.pomodoros > 0 \/ e.tasks_completed > 0)
        shown      == {<<"session", s>> : s \in pomodoro_sessions}
                      \cup {<<"task", t>> : t \in window_tasks}
                      \cup {<<"category", Val(tasks[t].category)>> :
                               t \in {x \in window_tasks : tasks[x].category /= None}}
    IN  IF uid \notin DOMAIN users
        THEN Response(op, Some(uid), api_exception_handler("Http404"), 0, {}, << >>)
        ELSE IF days = 0
        \* daily_average = round(total_pomodoros / days, 1)
        THEN Response(op, Some(uid), api_exception_handler("ZeroDivisionError"),
                      0, {}, << >>)
        ELSE Response(op, Some(uid), 200, 0, shown,
                      [pomodoro_time_series |->
                           time_series(start_date, end_date, pomodoro_counts),
                       task_completion_time_series |->
                           time_series(start_date, end_date, task_counts),
                       total_pomodoros |-> Cardinality(work),
                       completed_tasks |-> Cardinality(done),
                       streak |-> streak,
                       daily_stats |-> daily_stats])

get_analytics(tok, days) ==
    LET auth == AuthBearer_authenticate(tok)
    IN  /\ resp' = IF ~Truthy(auth)
                   THEN Response("get_analytics", None, 401, 0, {}, << >>)
                   ELSE analytics("get_analytics", Val(auth), days)
        /\ UNCHANGED store

get_analytics_by_date_range(tok, range) ==
    LET auth == AuthBearer_authenticate(tok)
        days == (range.end_date - range.start_date) + 1
    IN  /\ resp' = IF ~Truthy(auth)
                   THEN Response("get_analytics_by_date_range", None, 401, 0, {}, << >>)
                   ELSE analytics("get_analytics_by_date_range", Val(auth), days)
        /\ UNCHANGED store

\* completion_percentage, in tenths of a percent (1000 is 100.0).
completion_percentage_of_one(task) ==
    IF task.estimated_pomodoros > 0
    THEN round1(task.completed_pomodoros, task.estimated_pomodoros)
    ELSE 0

completion_percentage(task) ==
    IF task.estimated_pomodoros > 0
    THEN round1(task.completed_pomodoros * 100, task.estimated_pomodoros)
    ELSE 0

get_task_analytics(tok, task_id) ==
    LET auth == AuthBearer_authenticate(tok)
        uid  == Val(auth)
        exc  == get_object_or_404(tasks, task_id, uid)
        work == {s \in DOMAIN sessions :
                    /\ sessions[s].task = Some(task_id)
                    /\ sessions[s].type = "work" /\ sessions[s].is_completed}
    IN  /\ resp' = IF ~Truthy(auth)
                   THEN Response("get_task_analytics", None, 401, task_id, {}, << >>)
                   ELSE IF exc /= "none"
                   THEN Response("get_task_analytics", auth, api_exception_handler(exc),
                                 task_id, {}, << >>)
                   ELSE Response("get_task_analytics", auth, 200, task_id,
                                 {<<"task", task_id>>} \cup {<<"session", s>> : s \in work},
                                 [total_pomodoros |-> Cardinality(work),
                                  estimated_pomodoros |-> tasks[task_id].estimated_pomodoros,
                                  completed_pomodoros |-> tasks[task_id].completed_pomodoros,
                                  completion_percentage |->
                                      completion_percentage(tasks[task_id])])
        /\ UNCHANGED store

\* ------------------------------------------------------------ accounts
\* A username is a string; "fullwidth_a" stands for a compatibility spelling
\* of "a".  An email is a local part and a domain, the domain a text.
\* create_user stores normalize_username(username): its NFKC form.
normalize_username(username) == IF username = "fullwidth_a" THEN "a" ELSE username

\* EmailStr and normalize_email both lower-case the domain part.
EmailStr(email) == [local |-> email.local, domain |-> casefold(email.domain)]

normalize_email(email) == [local |-> email.local, domain |-> casefold(email.domain)]

\* The password validators of the settings refuse an all-numeric password.
validate_password(password) == password /= "12345678"

username_exists(username) == \E u \in DOMAIN users : users[u].username = username

email_exists_never(email) == FALSE

email_exists(email) == \E u \in DOMAIN users : users[u].email = email

\* The UserSetting row a user gets when none is given: the model's defaults.
DefaultSettings(uid) ==
    [user |-> uid, work_duration |-> 1500, short_break_duration |-> 300,
     long_break_duration |-> 900, long_break_interval |-> 4,
     notifications_enabled |-> TRUE]

token_data(id, row) == [user_id |-> id, username |-> row.username, email |-> row.email]

\* register: the two existence checks, the password validation, then
\* create_user, the settings row and the token.  The username column is unique,
\* so the store refuses a row whose normalized username is taken.
register(data) ==
    LET email == EmailStr(data.email)
        id    == nextId.user
        row   == [username |-> normalize_username(data.username),
                  email |-> normalize_email(email), password |-> data.password]
        fail(status, detail) ==
            /\ resp' = Response("register", None, status, 0, {}, [detail |-> detail])
            /\ UNCHANGED store
    IN  IF username_exists(data.username) THEN fail(400, "username exists")
        ELSE IF email_exists(email) THEN fail(400, "email exists")
        ELSE IF ~validate_password(data.password) THEN fail(400, "weak password")
        ELSE IF username_exists(row.username) THEN fail(500, "IntegrityError")
        ELSE /\ users' = With(users, id, row)
             /\ settings' = With(settings, nextId.setting, DefaultSettings(id))
             /\ tokens' = tokens \cup {create_token(id)}
             /\ nextId' = [nextId EXCEPT !.user = id + 1, !.setting = @ + 1]
             /\ resp' = Response("register", None, 200, id, {<<"user", id>>},
                                 token_data(id, row))
             /\ UNCHANGED <<categories, tags, tasks, sessions>>

\* authenticate: the user of that exact username, if the password matches.
authenticate(username, password) ==
    LET found == {u \in DOMAIN users :
                     users[u].username = username /\ users[u].password = password}
    IN  IF found = {} THEN None ELSE Some(CHOOSE u \in found : TRUE)

login(data) ==
    LET user == authenticate(data.username, data.password)
    IN  IF user = None
        THEN /\ resp' = Response("login", None, 401, 0, {}, [detail |-> "bad credentials"])
             /\ UNCHANGED store
        ELSE /\ tokens' = tokens \cup {create_token(Val(user))}
             /\ resp' = Response("login", None, 200, Val(user), {<<"user", Val(user)>>},
                                 token_data(Val(user), users[Val(user)]))
             /\ UNCHANGED <<users, settings, categories, tags, tasks, sessions, nextId>>

\* The settings rows of a user, and what a settings response shows of a row.
setting_of(uid) == {s \in DOMAIN settings : settings[s].user = uid}

settings_data(row) ==
    [work_duration |-> row.work_duration,
     short_break_duration |-> row.short_break_duration,
     long_break_duration |-> row.long_break_duration,
     long_break_interval |-> row.long_break_interval,
     notifications_enabled |-> row.notifications_enabled]

\* UserSetting.objects.get_or_create(user=user): the table afterwards.
update_or_create(uid) ==
    IF setting_of(uid) /= {}
    THEN [settings EXCEPT ![CHOOSE s \in setting_of(uid) : TRUE] = DefaultSettings(uid)]
    ELSE With(settings, nextId.setting, DefaultSettings(uid))

get_or_create(uid) ==
    IF setting_of(uid) /= {} THEN settings
    ELSE With(settings, nextId.setting, DefaultSettings(uid))

\* The auth router's handlers take the user id from the header themselves
\* and refuse only a missing one (None), then load the user.
get_user(tok, user_id) ==
    LET from_token == get_user_id_from_token(tok)
        id   == IF user_id = None THEN from_token ELSE user_id
        auth == IF user_id = None THEN from_token ELSE None
    IN  /\ resp' = IF id = None
                   THEN Response("get_user", None, 401, 0, {}, << >>)
                   ELSE IF Val(id) \notin DOMAIN users
                   THEN Response("get_user", auth, 404, Val(id), {}, << >>)
                   ELSE Response("get_user", auth, 200, Val(id), {<<"user", Val(id)>>},
                                 token_data(Val(id), users[Val(id)]))
        /\ UNCHANGED store

get_user_settings(tok) ==
    LET user_id == get_user_id_from_token(tok)
        uid     == Val(user_id)
        after   == get_or_create(uid)
        sid     == CHOOSE s \in DOMAIN after : after[s].user = uid
    IN  IF user_id = None
        THEN /\ resp' = Response("get_user_settings", None, 401, 0, {}, << >>)
             /\ UNCHANGED store
        ELSE IF uid \notin DOMAIN users
        THEN /\ resp' = Response("get_user_settings", user_id, 404, 0, {}, << >>)
             /\ UNCHANGED store
        ELSE /\ settings' = after
             /\ nextId' = [nextId EXCEPT !.setting =
                              IF DOMAIN after = DOMAIN settings THEN @ ELSE @ + 1]
             /\ resp' = Response("get_user_settings", user_id, 200, sid,
                                 {<<"setting", sid>>}, settings_data(after[sid]))
             /\ UNCHANGED <<users, tokens, categories, tags, tasks, sessions>>

update_user_settings(tok, data) ==
    LET user_id == get_user_id_from_token(tok)
        uid     == Val(user_id)
        after   == get_or_create(uid)
        sid     == CHOOSE s \in DOMAIN after : after[s].user = uid
        saved   == [user |-> uid, work_duration |-> data.work_duration,
                    short_break_duration |-> data.short_break_duration,
                    long_break_duration |-> data.long_break_duration,
                    long_break_interval |-> data.long_break_interval,
                    notifications_enabled |-> data.notifications_enabled]
    IN  IF user_id = None
        THEN /\ resp' = Response("update_user_settings", None, 401, 0, {}, << >>)
             /\ UNCHANGED store
        ELSE IF uid \notin DOMAIN users
        THEN /\ resp' = Response("update_user_settings", user_id, 404, 0, {}, << >>)
             /\ UNCHANGED store
        ELSE /\ settings' = [after EXCEPT ![sid] = saved]
             /\ nextId' = [nextId EXCEPT !.setting =
                              IF DOMAIN after = DOMAIN settings THEN @ ELSE @ + 1]
             /\ resp' = Response("update_user_settings", user_id, 200, sid,
                                 {<<"setting", sid>>}, settings_data(saved))
             /\ UNCHANGED <<users, tokens, categories, tags, tasks, sessions>>

\* ------------------------------------------------------------ requests
\* The tokens a request may carry: none, an issued one, a forged one.
ForgedToken == [user_id |-> 1, exp |-> now + TokenDays, sig |-> "bad"]

ReqTokens == {None, Some(ForgedToken)} \cup {Some(t) : t \in tokens}

EndTimes == {[at |-> now, tz |-> z] : z \in {"naive", "aware"}}

Durations == {1500}

TaskRefs == {None, Some(0)} \cup {Some(t) : t \in 1..(MaxTasks + 1)}

\* An update request that supplies nothing.
NoUpdate ==
    [title |-> None, description |-> None, status |-> None, priority |-> None,
     due_date |-> None, estimated_pomodoros |-> None, completed_pomodoros |-> None,
     category_id |-> None, tag_ids |-> None]

\* ------------------------------------------------------------ call log
\* hist counts, per task, the successful complete calls with is_completed
\* = true on a work session linked to it (completions) and the successful
\* delete calls on a completed work session linked to it (deletions); per
\* session, those complete calls (calls) and how much they raised the task's
\* counter (bumps); the tasks whose counter an update request has written; and
\* the parameters of the request just served (the days or the range of an
\* analytics request, the token presented, the body), where a wrapper logs
\* them; the number of requests that have changed the shared store; and the
\* tokens issued, each with its user and its day of issue.
NoRequest == [days |-> None, range |-> None, token |-> None, data |-> None]

HistInit ==
    [completions |-> [t \in TaskIds |-> 0], deletions |-> [t \in TaskIds |-> 0],
     calls |-> [s \in SessionIds |-> 0], bumps |-> [s \in SessionIds |-> 0],
     overwritten |-> {}, request |-> NoRequest, writes |-> 0, issued |-> {},
     marked |-> None]

LinkedWork(row) == row.type = "work" /\ row.task /= None

CompleteLogged(session_id, data) ==
    LET counted == /\ resp'.status = 200
                   /\ data.is_completed
                   /\ LinkedWork(sessions[session_id])
        t       == Val(sessions[session_id].task)
    IN  IF counted
        THEN [hist EXCEPT !.completions[t] = @ + 1,
                          !.calls[session_id] = @ + 1,
                          !.bumps[session_id] = @ + tasks'[t].completed_pomodoros
                                                  - tasks[t].completed_pomodoros]
        ELSE hist

LogComplete(session_id, data) == hist' = CompleteLogged(session_id, data)

LogDelete(session_id) ==
    LET counted == /\ resp'.status = 200
                   /\ sessions[session_id].is_completed
                   /\ LinkedWork(sessions[session_id])
        t       == Val(sessions[session_id].task)
    IN  hist' = IF counted THEN [hist EXCEPT !.deletions[t] = @ + 1] ELSE hist

LogUpdate(task_id, task_data) ==
    hist' = IF resp'.status = 200 /\ task_data.completed_pomodoros /= None
            THEN [hist EXCEPT !.overwritten = @ \cup {task_id}]
            ELSE hist

\* The task a session is linked to has been completed on fewer than
\* MaxPomodoros times.
CounterRoom(session_id) ==
    (session_id \in DOMAIN sessions /\ sessions[session_id].task /= None)
        => hist.completions[Val(sessions[session_id].task)] < MaxPomodoros

StartSession(Toks) ==
    \E tok \in Toks, task_id \in TaskRefs, type \in {"work", "short_break"},
       duration \in Durations :
        /\ nextId.session <= MaxSessions
        /\ start_session(tok, [task_id |-> task_id, type |-> type, duration |-> duration])
        /\ UNCHANGED <<now, hist, inflight>>

CompleteSession(Toks) ==
    \E tok \in Toks, session_id \in 1..(MaxSessions + 1), end_time \in EndTimes,
       is_completed \in BOOLEAN :
        LET data == [end_time |-> end_time, is_completed |-> is_completed]
        IN  /\ CounterRoom(session_id)
            /\ complete_session(tok, session_id, data)
            /\ LogComplete(session_id, data)
            /\ UNCHANGED <<now, inflight>>

DeleteSession(Toks) ==
    \E tok \in Toks, session_id \in 1..(MaxSessions + 1) :
        /\ delete_session(tok, session_id)
        /\ LogDelete(session_id)
        /\ UNCHANGED <<now, inflight>>

\* An update request that writes the task's completed-Pomodoro counter.
UpdateTaskCounter(Toks) ==
    \E tok \in Toks, task_id \in 1..(MaxTasks + 1), c \in {0} :
        LET task_data == [NoUpdate EXCEPT !.completed_pomodoros = Some(c)]
        IN  /\ update_task(tok, task_id, task_data)
            /\ LogUpdate(task_id, task_data)
            /\ UNCHANGED <<now, inflight>>

DeleteTask(Toks) ==
    \E tok \in Toks, task_id \in 1..(MaxTasks + 1) :
        /\ delete_task(tok, task_id)
        /\ UNCHANGED <<now, hist, inflight>>

\* ------------------------------------------------------------ the session tracker
\* Two registered users, each holding a token; user 1 owns task 1.
UserRow(n) ==
    LET name == IF n = 1 THEN "a" ELSE "b"
    IN  [username |-> name, email |-> [local |-> name, domain |-> <<"a">>],
         password |-> "correct horse"]

TaskRow(uid) ==
    [user |-> uid, title |-> <<"a">>, description |-> None, status |-> "pending",
     priority |-> "medium", due_date |-> None, estimated_pomodoros |-> 1,
     completed_pomodoros |-> 0, created_at |-> 1, updated_at |-> 1,
     category |-> None, tags |-> {}]

InitPomodoro ==
    /\ users = [u \in {1, 2} |-> UserRow(u)]
    /\ settings = [s \in {1, 2} |-> DefaultSettings(s)]
    /\ tokens = {[user_id |-> u, exp |-> 1 + TokenDays, sig |-> "ok"] : u \in {1, 2}}
    /\ categories = << >>
    /\ tags = << >>
    /\ tasks = [t \in {1} |-> TaskRow(1)]
    /\ sessions = << >>
    /\ nextId = [user |-> 3, setting |-> 3, category |-> 1, tag |-> 1, task |-> 2,
                 session |-> 1]
    /\ now = 1
    /\ inflight = NoneInFlight
    /\ resp = Response("none", None, 0, 0, {}, << >>)
    /\ hist = HistInit

\* The session tracker as its owner drives it: every request carries the
\* token of user 1.
OwnerTokens == {Some(t) : t \in {t \in tokens : t.user_id = 1}}

NextCounter ==
    \/ StartSession(OwnerTokens)
    \/ CompleteSession(OwnerTokens)
    \/ DeleteSession(OwnerTokens)
    \/ UpdateTaskCounter(OwnerTokens)
    \/ DeleteTask(OwnerTokens)

SpecCounter == InitPomodoro /\ [][NextCounter]_vars

\* The session tracker under requests of both users and of nobody.
NextPomodoro ==
    \/ StartSession(ReqTokens)
    \/ CompleteSession(ReqTokens)
    \/ DeleteSession(ReqTokens)

SpecPomodoro == InitPomodoro /\ [][NextPomodoro]_vars


\* ------------------------------------------------------------ counter claims
\* C1: under any sequence of complete and delete calls on the work sessions
\* linked to a task, the task's completed_pomodoros equals its net completions
\* (the complete calls with is_completed = true minus the deletions of
\* completed sessions) and is never negative, as long as no update request
\* has written the counter.
CounterIsNetCompletions ==
    \A t \in DOMAIN tasks :
        /\ tasks[t].completed_pomodoros >= 0
        /\ t \notin hist.overwritten
             => tasks[t].completed_pomodoros = hist.completions[t] - hist.deletions[t]

\* A single session was completed twice and then deleted.
CounterIsNetCompletionsWitness ==
    /\ nextId.session = 2
    /\ 1 \in DOMAIN tasks /\ 1 \notin hist.overwritten
    /\ hist.calls[1] = 2 /\ hist.completions[1] = 2 /\ hist.deletions[1] = 1
    /\ tasks[1].completed_pomodoros = 1

\* C2: however often complete_session is called with is_completed = true on a
\* work session linked to a task, the calls raise the task's counter by
\* exactly 1 in total.
CompletionCountsOnce ==
    \A s \in SessionIds : hist.calls[s] >= 1 => hist.bumps[s] = 1

\* C3: a successful delete_session removes the session; it lowers the linked
\* task's counter by 1 (leaving 0 at 0) when the session was a completed work
\* session linked to a task, and changes no task's counter otherwise.
DeleteSessionEffect ==
    [][(resp'.op = "delete_session" /\ resp'.status = 200) =>
         LET sid == resp'.id
         IN  /\ sid \in DOMAIN sessions
             /\ sid \notin DOMAIN sessions'
             /\ DOMAIN tasks' = DOMAIN tasks
             /\ \A t \in DOMAIN tasks :
                  tasks'[t].completed_pomodoros =
                     IF /\ sessions[sid].is_completed
                        /\ sessions[sid].type = "work"
                        /\ sessions[sid].task = Some(t)
                     THEN IF tasks[t].completed_pomodoros > 0
                          THEN tasks[t].completed_pomodoros - 1 ELSE 0
                     ELSE tasks[t].completed_pomodoros]_vars

\* The only session ever started was completed, its task's counter was then
\* written to 0, and the session has just been deleted.
DeleteSessionEffectWitness ==
    /\ resp.op = "delete_session" /\ resp.status = 200
    /\ nextId.session = 2
    /\ 1 \in DOMAIN tasks /\ 1 \in hist.overwritten
    /\ hist.completions[1] = 1 /\ hist.deletions[1] = 1
    /\ tasks[1].completed_pomodoros = 0

\* C5: a session handler answers a caller it has authenticated with success
\* or with not-found (404), never with another status.
SessionLookupFailureIs404 ==
    (resp.op \in {"start_session", "complete_session", "delete_session"}
       /\ resp.uid /= None /\ resp.status /= 200) => resp.status = 404


\* ------------------------------------------------------------ the analytics aggregator
\* The clock moves on to the next day; the response of the day before is
\* no longer outstanding.
Tick ==
    /\ now < MaxDay
    /\ now' = now + 1
    /\ resp' = Response("none", None, 0, 0, {}, << >>)
    /\ hist' = [hist EXCEPT !.request = NoRequest]
    /\ UNCHANGED <<store, inflight>>

StartWork ==
    \E tok \in OwnerTokens :
        /\ nextId.session <= MaxWork
        /\ \A s \in DOMAIN sessions :
              sessions[s].start_time = now => sessions[s].is_completed
        /\ start_session(tok, [task_id |-> None, type |-> "work", duration |-> 1500])
        /\ hist' = [hist EXCEPT !.request = NoRequest]
        /\ UNCHANGED <<now, inflight>>

CompleteWork ==
    \E tok \in OwnerTokens, session_id \in 1..MaxWork :
        /\ session_id \in DOMAIN sessions
        /\ ~sessions[session_id].is_completed
        /\ sessions[session_id].start_time = now
        /\ complete_session(tok, session_id,
                            [end_time |-> [at |-> now, tz |-> "naive"],
                             is_completed |-> TRUE])
        /\ hist' = [hist EXCEPT !.request = NoRequest]
        /\ UNCHANGED <<now, inflight>>

CompleteTask ==
    \E tok \in OwnerTokens :
        /\ tasks[1].status /= "completed"
        /\ complete_task(tok, 1)
        /\ hist' = [hist EXCEPT !.request = NoRequest]
        /\ UNCHANGED <<now, inflight>>

AnalyticsTokens == {None} \cup {Some(t) : t \in tokens}

DaysInputs == (0 - 1)..(MaxDay - 1)

GetAnalytics ==
    \E tok \in AnalyticsTokens, days \in DaysInputs :
        /\ get_analytics(tok, days)
        /\ hist' = [hist EXCEPT !.request = [NoRequest EXCEPT !.days = Some(days)]]
        /\ UNCHANGED <<now, inflight>>

DateRanges ==
    {[start_date |-> a, end_date |-> b] : a \in (now - 1)..now, b \in (now - 1)..now}

GetAnalyticsByDateRange ==
    \E tok \in AnalyticsTokens, range \in DateRanges :
        /\ get_analytics_by_date_range(tok, range)
        /\ hist' = [hist EXCEPT !.request = [NoRequest EXCEPT !.range = Some(range)]]
        /\ UNCHANGED <<now, inflight>>

NextAnalytics ==
    \/ Tick
    \/ StartWork
    \/ CompleteWork
    \/ CompleteTask
    \/ GetAnalytics
    \/ GetAnalyticsByDateRange

SpecAnalytics == InitPomodoro /\ [][NextAnalytics]_vars

\* ------------------------------------------------------------ analytics claims
\* A dashboard response that has just been served, and the days it was asked for.
Dashboard == resp.op = "get_analytics" /\ resp.status = 200

AskedDays == Val(hist.request.days)

\* A date-range response that has just been served, and the range it was asked for.
Ranged == resp.op = "get_analytics_by_date_range" /\ resp.status = 200

AskedRange == Val(hist.request.range)

\* Whether a series is one entry per calendar day from first to last, in
\* ascending order.
CoversDays(series, first, last) ==
    /\ Len(series) = last - first + 1
    /\ \A i \in 1..Len(series) : series[i].date = first + i - 1

\* The user's completed work sessions started on day d.
WorkOn(uid, d) ==
    Cardinality({s \in DOMAIN sessions :
                    /\ sessions[s].user = uid /\ sessions[s].start_time = d
                    /\ sessions[s].type = "work" /\ sessions[s].is_completed})

\* The user's completed tasks created on or after day first and last
\* updated on day d.
DoneOn(uid, first, d) ==
    Cardinality({t \in DOMAIN tasks :
                    /\ tasks[t].user = uid /\ tasks[t].created_at >= first
                    /\ tasks[t].updated_at = d /\ tasks[t].status = "completed"})

\* C7: a dashboard request with days = N >= 1 returns two time series of
\* exactly N entries each, one per calendar day of the window ending today,
\* in ascending order, with 0 on every day without activity.
TimeSeriesHasNEntries ==
    (Dashboard /\ AskedDays >= 1) =>
        LET uid == Val(resp.uid)
            ps  == resp.data.pomodoro_time_series
            ts  == resp.data.task_completion_time_series
        IN  /\ Len(ps) = AskedDays /\ Len(ts) = AskedDays
            /\ CoversDays(ps, ps[1].date, now)
            /\ CoversDays(ts, ts[1].date, now)
            /\ \A i \in 1..Len(ps) : WorkOn(uid, ps[i].date) = 0 => ps[i].value = 0
            /\ \A i \in 1..Len(ts) : DoneOn(uid, 0, ts[i].date) = 0 => ts[i].value = 0

\* The number of consecutive days, back from day d, on each of which the user
\* has a completed work session.
RECURSIVE TrailingRun(_, _)
TrailingRun(uid, d) ==
    IF WorkOn(uid, d) > 0 THEN 1 + TrailingRun(uid, d - 1) ELSE 0

Min(a, b) == IF a <= b THEN a ELSE b

DateRangeCoversRange ==
    (Ranged /\ AskedRange.start_date <= AskedRange.end_date) =>
        LET uid == Val(resp.uid)
            S   == AskedRange.start_date
            E   == AskedRange.end_date
            ps  == resp.data.pomodoro_time_series
            ts  == resp.data.task_completion_time_series
        IN  /\ CoversDays(ps, S, E)
            /\ CoversDays(ts, S, E)
            /\ \A i \in 1..Len(ps) : ps[i].value = WorkOn(uid, ps[i].date)
            /\ \A i \in 1..Len(ts) : ts[i].value = DoneOn(uid, S, ts[i].date)

\* ------------------------------------------------------------ the account desk
InitAuth ==
    /\ users = << >>
    /\ settings = << >>
    /\ tokens = {}
    /\ categories = << >>
    /\ tags = << >>
    /\ tasks = << >>
    /\ sessions = << >>
    /\ nextId = [user |-> 1, setting |-> 1, category |-> 1, tag |-> 1, task |-> 1,
                 session |-> 1]
    /\ now = 1
    /\ inflight = NoneInFlight
    /\ resp = Response("none", None, 0, 0, {}, << >>)
    /\ hist = HistInit

Usernames == {"a", "fullwidth_a", "b"}

Emails == {[local |-> l, domain |-> d] : l \in {"a", "b"}, d \in {<<"a">>, <<"A">>}}

Passwords == {"correct horse", "12345678"}

SignUps == [username : Usernames, email : Emails, password : Passwords]

Register ==
    \E data \in SignUps :
        /\ nextId.user <= MaxUsers
        /\ register(data)
        /\ UNCHANGED <<now, hist, inflight>>

Login ==
    \E username \in Usernames, password \in Passwords :
        /\ login([username |-> username, password |-> password])
        /\ UNCHANGED <<now, hist, inflight>>

NextAuth ==
    \/ Tick
    \/ Register
    \/ Login

SpecAuth == InitAuth /\ [][NextAuth]_vars

\* ------------------------------------------------------------ account claims
\* Whether a sign-up's username, or its email, already belongs to a user.
Taken(data) ==
    \E u \in DOMAIN users :
        \/ users[u].username = data.username
        \/ users[u].email = EmailStr(data.email)

\* C10: a register call whose username or email already belongs to a user
\* answers 400 and creates no user, no settings row and no token; and after
\* every step no two users share a username or an email.
RegisterRefusesTaken ==
    [][/\ \A data \in SignUps :
             (register(data) /\ Taken(data)) =>
                 /\ resp'.status = 400
                 /\ users' = users /\ settings' = settings /\ tokens' = tokens
       /\ \A u, v \in DOMAIN users' :
             u /= v => /\ users'[u].username /= users'[v].username
                       /\ users'[u].email /= users'[v].email]_vars

\* A register call has just been refused because its email belongs to the
\* one registered user, who is still the only one.
RegisterRefusesTakenWitness ==
    /\ resp.op = "register" /\ resp.status = 400
    /\ resp.data.detail = "email exists"
    /\ DOMAIN users = {1} /\ DOMAIN settings = {1} /\ Cardinality(tokens) = 1

\* ------------------------------------------------------------ the shared store
\* Two users on one store: each owns a category, a tag, a task carrying
\* both, and an open work session on that task (user u owns the rows of id u).
LabelRow(uid) == [user |-> uid, name |-> "x", color_code |-> "#fff"]

InitShared ==
    /\ users = [u \in {1, 2} |-> UserRow(u)]
    /\ settings = [s \in {1, 2} |-> DefaultSettings(s)]
    /\ tokens = {[user_id |-> u, exp |-> 1 + TokenDays, sig |-> "ok"] : u \in {1, 2}}
    /\ categories = [c \in {1, 2} |-> LabelRow(c)]
    /\ tags = [g \in {1, 2} |-> LabelRow(g)]
    /\ tasks = [t \in {1, 2} |-> [TaskRow(t) EXCEPT !.category = Some(t), !.tags = {t}]]
    /\ sessions = [s \in {1, 2} |->
                     [user |-> s, task |-> Some(s), start_time |-> 1, end_time |-> None,
                      duration |-> 1500, type |-> "work", is_completed |-> FALSE]]
    /\ nextId = [user |-> 3, setting |-> 3, category |-> 3, tag |-> 3, task |-> 3,
                 session |-> 3]
    /\ now = 1
    /\ inflight = NoneInFlight
    /\ resp = Response("none", None, 0, 0, {}, << >>)
    /\ hist = HistInit

\* A request changes the store only while fewer than MaxWrites have.
Spend ==
    /\ store' /= store => hist.writes < MaxWrites
    /\ hist' = [hist EXCEPT !.writes = IF store' = store THEN @ ELSE @ + 1]
    /\ UNCHANGED <<now, inflight>>

BothTokens == {Some(t) : t \in tokens}

RowIds == {1, 2}

RowRefs == {None, Some(1), Some(2)}

NewTasks ==
    {[title |-> <<"a">>, description |-> None, status |-> "pending",
      priority |-> "medium", due_date |-> None, estimated_pomodoros |-> 1,
      category_id |-> c, tag_ids |-> g] : c \in RowRefs, g \in {{}, {1, 2}}}

TaskUpdates ==
    {[NoUpdate EXCEPT !.category_id = c, !.tag_ids = g] :
        c \in RowRefs, g \in {None, Some({1, 2})}}

Relabel == [name |-> "y", color_code |-> "#fff"]

ListTasks ==
    \E tok \in BothTokens, category_id \in RowRefs :
        list_tasks(tok, None, None, category_id, None) /\ Spend

CreateTask ==
    \E tok \in BothTokens, task_data \in NewTasks :
        create_task(tok, task_data) /\ Spend

GetTask ==
    \E tok \in BothTokens, task_id \in RowIds :
        get_task(tok, task_id) /\ Spend

UpdateTask ==
    \E tok \in BothTokens, task_id \in RowIds, task_data \in TaskUpdates :
        update_task(tok, task_id, task_data) /\ Spend

RemoveTask ==
    \E tok \in BothTokens, task_id \in RowIds :
        delete_task(tok, task_id) /\ Spend

FinishTask ==
    \E tok \in BothTokens, task_id \in RowIds :
        complete_task(tok, task_id) /\ Spend

ListCategories ==
    \E tok \in BothTokens :
        list_categories(tok) /\ Spend

CreateCategory ==
    \E tok \in BothTokens :
        create_category(tok, LabelRow(0)) /\ Spend

UpdateCategory ==
    \E tok \in BothTokens, category_id \in RowIds :
        update_category(tok, category_id, Relabel) /\ Spend

DeleteCategory ==
    \E tok \in BothTokens, category_id \in RowIds :
        delete_category(tok, category_id) /\ Spend

ListTags ==
    \E tok \in BothTokens :
        list_tags(tok) /\ Spend

CreateTag ==
    \E tok \in BothTokens :
        create_tag(tok, LabelRow(0)) /\ Spend

UpdateTag ==
    \E tok \in BothTokens, tag_id \in RowIds :
        update_tag(tok, tag_id, Relabel) /\ Spend

DeleteTag ==
    \E tok \in BothTokens, tag_id \in RowIds :
        delete_tag(tok, tag_id) /\ Spend

StartLinked ==
    \E tok \in BothTokens, task_id \in RowRefs :
        start_session(tok, [task_id |-> task_id, type |-> "work", duration |-> 1500])
        /\ Spend

FinishSession ==
    \E tok \in BothTokens, session_id \in RowIds :
        complete_session(tok, session_id,
                         [end_time |-> [at |-> now, tz |-> "naive"],
                          is_completed |-> TRUE])
        /\ Spend

RemoveSession ==
    \E tok \in BothTokens, session_id \in RowIds :
        delete_session(tok, session_id) /\ Spend

GetHistory ==
    \E tok \in BothTokens, task_id \in RowRefs :
        get_history(tok, 1, task_id) /\ Spend

GetStats ==
    \E tok \in BothTokens :
        get_stats(tok, 1) /\ Spend

GetDashboard ==
    \E tok \in BothTokens :
        get_analytics(tok, 1) /\ Spend

GetDateRange ==
    \E tok \in BothTokens :
        get_analytics_by_date_range(tok, [start_date |-> now, end_date |-> now])
        /\ Spend

GetTaskAnalytics ==
    \E tok \in BothTokens, task_id \in RowIds :
        get_task_analytics(tok, task_id) /\ Spend

NextShared ==
    \/ ListTasks
    \/ CreateTask
    \/ GetTask
    \/ UpdateTask
    \/ RemoveTask
    \/ FinishTask
    \/ ListCategories
    \/ CreateCategory
    \/ UpdateCategory
    \/ DeleteCategory
    \/ ListTags
    \/ CreateTag
    \/ UpdateTag
    \/ DeleteTag
    \/ StartLinked
    \/ FinishSession
    \/ RemoveSession
    \/ GetHistory
    \/ GetStats
    \/ GetDashboard
    \/ GetDateRange
    \/ GetTaskAnalytics

SpecShared == InitShared /\ [][NextShared]_vars

\* ------------------------------------------------------------ shared-store claims
\* Whether every row of user a in a table is still there, unchanged, in the
\* table as the step leaves it.
Untouched(table, after, a) ==
    \A id \in DOMAIN table :
        table[id].user = a => id \in DOMAIN after /\ after[id] = table[id]

\* Whether a <<kind, id>> reference names a row of user a in a store.
Names(ref, a, cs, gs, ts, ss) ==
    LET id == ref[2]
    IN  \/ ref[1] = "category" /\ id \in DOMAIN cs /\ cs[id].user = a
        \/ ref[1] = "tag" /\ id \in DOMAIN gs /\ gs[id].user = a
        \/ ref[1] = "task" /\ id \in DOMAIN ts /\ ts[id].user = a
        \/ ref[1] = "session" /\ id \in DOMAIN ss /\ ss[id].user = a

\* C4: whatever request a user's token makes, every category, tag, task
\* (counters included) and session of every other user stays as it was, and
\* the response shows none of them.
OwnershipIsolation ==
    [][\A a \in DOMAIN users :
          resp'.uid /= Some(a) =>
              /\ Untouched(categories, categories', a)
              /\ Untouched(tags, tags', a)
              /\ Untouched(tasks, tasks', a)
              /\ Untouched(sessions, sessions', a)
              /\ \A ref \in resp'.body :
                    /\ ~Names(ref, a, categories, tags, tasks, sessions)
                    /\ ~Names(ref, a, categories', tags', tasks', sessions')]_vars

\* User 2 has just asked to update task 1 of user 1 and was told it is not
\* found; the task is as user 1 left it.
OwnershipIsolationWitness ==
    /\ resp.op = "update_task" /\ resp.uid = Some(2) /\ resp.id = 1
    /\ resp.status = 404
    /\ 1 \in DOMAIN tasks /\ tasks[1].user = 1 /\ tasks[1].tags = {1}

\* Whether a task request of user uid names a category or a tag of another user.
NamesForeign(uid, category_id, tag_ids) ==
    \/ /\ Truthy(category_id) /\ Val(category_id) \in DOMAIN categories
       /\ categories[Val(category_id)].user /= uid
    \/ \E g \in tag_ids : g \in DOMAIN tags /\ tags[g].user /= uid

\* C6: a create_task or update_task request that names a category or a tag
\* of another user is answered 404, and no task is created or changed.
ForeignRefsRejected ==
    [][\A tok \in BothTokens :
          /\ \A task_data \in NewTasks :
                (/\ create_task(tok, task_data)
                 /\ NamesForeign(Val(tok).user_id, task_data.category_id,
                                 task_data.tag_ids))
                    => resp'.status = 404 /\ tasks' = tasks
          /\ \A task_id \in RowIds, task_data \in TaskUpdates :
                (/\ update_task(tok, task_id, task_data)
                 /\ NamesForeign(Val(tok).user_id, task_data.category_id,
                                 IF task_data.tag_ids = None THEN {}
                                 ELSE Val(task_data.tag_ids)))
                    => resp'.status = 404 /\ tasks' = tasks]_vars

\* ------------------------------------------------------------ the token gate
\* Two registered users: user 1 logged in today, user 2 six days ago, so
\* that the token of user 2 runs out tomorrow.  User 1 owns task 1.
IssuedAt(u, day) ==
    [token |-> [user_id |-> u, exp |-> day + TokenDays, sig |-> "ok"],
     user |-> u, at |-> day]

InitTokens ==
    /\ users = [u \in {1, 2} |-> UserRow(u)]
    /\ settings = [s \in {1, 2} |-> DefaultSettings(s)]
    /\ tokens = {IssuedAt(1, 1).token, IssuedAt(2, 0 - 5).token}
    /\ categories = << >>
    /\ tags = << >>
    /\ tasks = [t \in {1} |-> TaskRow(1)]
    /\ sessions = << >>
    /\ nextId = [user |-> 3, setting |-> 3, category |-> 1, tag |-> 1, task |-> 2,
                 session |-> 1]
    /\ now = 1
    /\ inflight = NoneInFlight
    /\ resp = Response("none", None, 0, 0, {}, << >>)
    /\ hist = [HistInit EXCEPT !.issued = {IssuedAt(1, 1), IssuedAt(2, 0 - 5)}]

\* What an Authorization header may hold: nothing, a string that does not
\* decode, an issued token with its payload rewritten (the signature no
\* longer matches), or an issued token, live or expired.
Malformed == [user_id |-> 1, exp |-> now + TokenDays, sig |-> "malformed"]

Rewritten(t) == [t EXCEPT !.exp = now + TokenDays, !.sig = "bad"]

Presented ==
    {None, Some(Malformed)}
    \cup {Some(Rewritten(t)) : t \in tokens}
    \cup {Some(t) : t \in tokens}

\* The log of a request that presented tok.
Presents(tok) ==
    /\ hist' = [hist EXCEPT !.request = [NoRequest EXCEPT !.token = Some(tok)]]
    /\ UNCHANGED <<now, inflight>>

\* A user logs in again once the token held has run out.
LoginAgain ==
    \E u \in DOMAIN users :
        /\ \A t \in tokens : t.user_id = u => ~(now < t.exp)
        /\ login([username |-> users[u].username, password |-> users[u].password])
        /\ hist' = [hist EXCEPT !.request = NoRequest,
                                !.issued = @ \cup {[token |-> t, user |-> resp'.id, at |-> now] :
                                                     t \in tokens' \ tokens}]
        /\ UNCHANGED <<now, inflight>>

GateCreateTask ==
    \E tok \in Presented :
        /\ nextId.task <= MaxTasks
        /\ create_task(tok, [title |-> <<"a">>, description |-> None,
                             status |-> "pending", priority |-> "medium",
                             due_date |-> None, estimated_pomodoros |-> 1,
                             category_id |-> None, tag_ids |-> {}])
        /\ Presents(tok)

GateGetStats ==
    \E tok \in Presented :
        get_stats(tok, 1) /\ Presents(tok)

GateGetAnalytics ==
    \E tok \in Presented :
        get_analytics(tok, 1) /\ Presents(tok)

GateGetUser ==
    \E tok \in Presented :
        get_user(tok, None) /\ Presents(tok)

GateGetSettings ==
    \E tok \in Presented :
        get_user_settings(tok) /\ Presents(tok)

GateUpdateSettings ==
    \E tok \in Presented :
        /\ update_user_settings(tok, [settings_data(DefaultSettings(0))
                                         EXCEPT !.work_duration = 1200])
        /\ Presents(tok)

NextTokens ==
    \/ Tick
    \/ LoginAgain
    \/ GateCreateTask
    \/ GateGetStats
    \/ GateGetAnalytics
    \/ GateGetUser
    \/ GateGetSettings
    \/ GateUpdateSettings

SpecTokens == InitTokens /\ [][NextTokens]_vars

\* ------------------------------------------------------------ token claims
\* C11: a request presenting a token issued to user u less than 7 days ago
\* is served as user u and no other; a request presenting no token, one that
\* does not decode, one whose signature does not match or one issued 7 days
\* ago or more is answered 401 with no user id, and the store is left as it was.
TokenFailsClosed ==
    [][hist'.request.token /= None =>
          LET tok  == Val(hist'.request.token)
              live == {e \in hist.issued :
                          tok = Some(e.token) /\ now < e.at + 7}
          IN  IF live /= {}
              THEN \A e \in live : resp'.uid = Some(e.user)
              ELSE resp'.status = 401 /\ resp'.uid = None /\ store' = store]_vars

\* User 2, whose token ran out yesterday, has just been refused.
TokenFailsClosedWitness ==
    /\ hist.request.token = Some(Some(IssuedAt(2, 0 - 5).token))
    /\ now = 2 /\ resp.status = 401 /\ resp.uid = None

\* ------------------------------------------------------------ the settings desk
\* User 1 was created outside the API (createsuperuser) and has no settings
\* row yet; a second user may register. Both read and write their settings.
InitSettings ==
    /\ users = [u \in {1} |-> [username |-> "a",
                               email |-> [local |-> "a", domain |-> <<"a">>],
                               password |-> "correct horse"]]
    /\ settings = << >>
    /\ tokens = {IssuedAt(1, 1).token}
    /\ categories = << >>
    /\ tags = << >>
    /\ tasks = << >>
    /\ sessions = << >>
    /\ nextId = [user |-> 2, setting |-> 1, category |-> 1, tag |-> 1, task |-> 1,
                 session |-> 1]
    /\ now = 1
    /\ inflight = NoneInFlight
    /\ resp = Response("none", None, 0, 0, {}, << >>)
    /\ hist = HistInit

\* Bodies of PUT /settings: none of them equals the defaults.
SettingsInputs ==
    {[work_duration |-> w, short_break_duration |-> 300, long_break_duration |-> 900,
      long_break_interval |-> 4, notifications_enabled |-> n] :
        w \in {1200, 1800}, n \in {FALSE}}

GetUserSettings ==
    \E tok \in ReqTokens :
        /\ get_user_settings(tok)
        /\ UNCHANGED <<now, hist, inflight>>

UpdateUserSettings ==
    \E tok \in ReqTokens, data \in SettingsInputs :
        /\ update_user_settings(tok, data)
        /\ UNCHANGED <<now, hist, inflight>>

NextSettings ==
    \/ Tick
    \/ Register
    \/ GetUserSettings
    \/ UpdateUserSettings

SpecSettings == InitSettings /\ [][NextSettings]_vars

\* ------------------------------------------------------------ settings claims
\* The settings rows of a user after the step.
setting_after(uid) == {s \in DOMAIN settings' : settings'[s].user = uid}

\* C12: after every register, get_settings and update_settings call each
\* user has at most one settings row; a successful registration and a
\* successful settings read or write leave the user with exactly one; a
\* read for a user without a row creates it with the defaults 1500, 300,
\* 900, 4, TRUE and answers them; a write for such a user leaves the one row
\* holding the body; a read for a user with a row changes no row and answers
\* the stored values.
SettingsGetOrCreate ==
    [][LET uid == resp'.id
           me  == Val(resp'.uid)
       IN  /\ \A u \in DOMAIN users' : Cardinality(setting_after(u)) <= 1
           /\ resp'.op = "register" /\ resp'.status = 200
                => Cardinality(setting_after(uid)) = 1
           /\ resp'.op \in {"get_user_settings", "update_user_settings"}
              /\ resp'.status = 200
                => Cardinality(setting_after(me)) = 1
           /\ resp'.op = "get_user_settings" /\ resp'.status = 200
                => IF setting_of(me) = {}
                   THEN /\ \A s \in setting_after(me) :
                               settings'[s] = [user |-> me, work_duration |-> 1500,
                                               short_break_duration |-> 300,
                                               long_break_duration |-> 900,
                                               long_break_interval |-> 4,
                                               notifications_enabled |-> TRUE]
                        /\ \A s \in DOMAIN settings : settings'[s] = settings[s]
                        /\ resp'.data.work_duration = 1500
                        /\ resp'.data.notifications_enabled
                   ELSE /\ settings' = settings
                        /\ \A s \in setting_of(me) :
                               resp'.data = settings_data(settings[s])]_vars

\* User 1, who had no row, has read the settings and got the defaults.
SettingsGetOrCreateWitness ==
    /\ resp.op = "get_user_settings" /\ resp.status = 200 /\ resp.uid = Some(1)
    /\ \E s \in DOMAIN settings : settings[s] = DefaultSettings(1)
    /\ resp.data = settings_data(DefaultSettings(1))

\* ------------------------------------------------------------ the task desk
\* User 1 owns categories 1 and 2, tags 1 and 2 and task 1, which has every
\* field set; category 3 and tag 3 are user 2's.  A create or update request
\* is filed with its body, and at most MaxWrites of them are served.
InitTasks ==
    /\ users = [u \in {1, 2} |-> UserRow(u)]
    /\ settings = [s \in {1, 2} |-> DefaultSettings(s)]
    /\ tokens = {IssuedAt(1, 1).token}
    /\ categories = [c \in {1, 2, 3} |-> LabelRow(IF c = 3 THEN 2 ELSE 1)]
    /\ tags = [g \in {1, 2, 3} |-> LabelRow(IF g = 3 THEN 2 ELSE 1)]
    /\ tasks = [t \in {1} |->
                  [TaskRow(1) EXCEPT !.description = Some(<<"a">>),
                                     !.status = "in_progress", !.priority = "high",
                                     !.due_date = Some(3), !.estimated_pomodoros = 2,
                                     !.completed_pomodoros = 1, !.created_at = 0,
                                     !.updated_at = 0, !.category = Some(1),
                                     !.tags = {1}]]
    /\ sessions = << >>
    /\ nextId = [user |-> 3, setting |-> 3, category |-> 4, tag |-> 4, task |-> 2,
                 session |-> 1]
    /\ now = 1
    /\ inflight = NoneInFlight
    /\ resp = Response("none", None, 0, 0, {}, << >>)
    /\ hist = HistInit

DeskTokens == {None} \cup {Some(t) : t \in tokens}

Files(data) ==
    /\ hist.writes < MaxWrites
    /\ hist' = [hist EXCEPT !.request = [NoRequest EXCEPT !.data = Some(data)],
                            !.writes = @ + 1]
    /\ UNCHANGED <<now, inflight>>

DeskCategoryIds == {None, Some(0), Some(2), Some(3)}

DeskNewTasks ==
    {[title |-> <<"b">>, description |-> d, status |-> IF d = None THEN "pending"
                                                       ELSE "completed",
      priority |-> IF d = None THEN "medium" ELSE "low",
      due_date |-> IF d = None THEN None ELSE Some(2),
      estimated_pomodoros |-> IF d = None THEN 1 ELSE 2,
      category_id |-> c, tag_ids |-> g] :
        d \in {None, Some(<<"b">>)}, c \in DeskCategoryIds,
        g \in {{}, {1, 2}, {2, 3}}}

\* The plain fields of an update body: none, the title alone, all but the
\* title, all, or a counter the store refuses.
DeskFieldUpdates ==
    LET all == [NoUpdate EXCEPT !.title = Some(<<"b">>), !.description = Some(<<"b">>),
                                !.status = Some("completed"), !.priority = Some("low"),
                                !.due_date = Some(2), !.estimated_pomodoros = Some(3),
                                !.completed_pomodoros = Some(2)]
    IN  {NoUpdate, [NoUpdate EXCEPT !.title = Some(<<"b">>)],
         [all EXCEPT !.title = None], all,
         [NoUpdate EXCEPT !.completed_pomodoros = Some(0 - 1)]}

DeskTaskUpdates ==
    {[f EXCEPT !.category_id = c, !.tag_ids = g] :
        f \in DeskFieldUpdates, c \in DeskCategoryIds,
        g \in {None, Some({}), Some({2}), Some({2, 3})}}

DeskCreateTask ==
    \E tok \in DeskTokens, task_data \in DeskNewTasks :
        /\ nextId.task <= MaxTasks
        /\ create_task(tok, task_data)
        /\ Files(task_data)

DeskGetTask ==
    \E tok \in DeskTokens, task_id \in TaskIds :
        /\ get_task(tok, task_id)
        /\ hist' = [hist EXCEPT !.request = NoRequest]
        /\ UNCHANGED <<now, inflight>>

DeskUpdateTask ==
    \E tok \in DeskTokens, task_id \in TaskIds, task_data \in DeskTaskUpdates :
        /\ update_task(tok, task_id, task_data)
        /\ Files(task_data)

DeskListTasks ==
    \E tok \in DeskTokens, status \in {None, Some("completed")},
       priority \in {None, Some("high"), Some("low")}, category_id \in {None, Some(2)},
       search \in {None, Some(<<"b">>)} :
        /\ list_tasks(tok, status, priority, category_id, search)
        /\ hist' = [hist EXCEPT !.request = NoRequest]
        /\ UNCHANGED <<now, inflight>>

NextTasks ==
    \/ DeskCreateTask
    \/ DeskGetTask
    \/ DeskUpdateTask
    \/ DeskListTasks

SpecTasks == InitTasks /\ [][NextTasks]_vars

\* ------------------------------------------------------------ task claims
\* The body of the request just served, and the task it names before and
\* after the request.
Filed == Val(hist'.request.data)

OldTask == tasks[resp'.id]

NewTask == tasks'[resp'.id]

UpdateServed == resp'.op = "update_task" /\ resp'.id \in DOMAIN tasks

\* C13: an update_task request leaves every field it does not supply as it
\* was: title, description, status, priority, due date, estimated and
\* completed counts, category, tag set; and never changes the owner or the
\* creation time.
TaskUpdateIsPartial ==
    [][UpdateServed =>
          /\ resp'.id \in DOMAIN tasks'
          /\ Filed.title = None => NewTask.title = OldTask.title
          /\ Filed.description = None => NewTask.description = OldTask.description
          /\ Filed.status = None => NewTask.status = OldTask.status
          /\ Filed.priority = None => NewTask.priority = OldTask.priority
          /\ Filed.due_date = None => NewTask.due_date = OldTask.due_date
          /\ Filed.estimated_pomodoros = None
               => NewTask.estimated_pomodoros = OldTask.estimated_pomodoros
          /\ Filed.completed_pomodoros = None
               => NewTask.completed_pomodoros = OldTask.completed_pomodoros
          /\ Filed.category_id = None => NewTask.category = OldTask.category
          /\ Filed.tag_ids = None => NewTask.tags = OldTask.tags
          /\ NewTask.user = OldTask.user
          /\ NewTask.created_at = OldTask.created_at]_vars

\* Task 1 has been given a new title and nothing else.
TaskUpdateIsPartialWitness ==
    /\ resp.op = "update_task" /\ resp.status = 200 /\ resp.id = 1
    /\ hist.request.data = Some([NoUpdate EXCEPT !.title = Some(<<"b">>)])
    /\ tasks[1].title = <<"b">> /\ tasks[1].description = Some(<<"a">>)
    /\ tasks[1].category = Some(1) /\ tasks[1].tags = {1}
    /\ tasks[1].completed_pomodoros = 1

\* C14: a get_task that follows a successful create_task by the same user
\* for the created task answers the values of the creation body (title,
\* description, status, priority, due date, estimated_pomodoros, category,
\* tags) with completed_pomodoros = 0, and a successful create_task raises
\* the number of the user's tasks by one.
CreateGetRoundTrip ==
    [][/\ (/\ resp.op = "create_task" /\ resp.status = 200
           /\ resp'.op = "get_task" /\ resp'.id = resp.id /\ resp'.uid = resp.uid)
            => LET sent == Val(hist.request.data)
                   got  == resp'.data
               IN  /\ resp'.status = 200
                   /\ got.title = sent.title
                   /\ got.description = sent.description
                   /\ got.status = sent.status
                   /\ got.priority = sent.priority
                   /\ got.due_date = sent.due_date
                   /\ got.estimated_pomodoros = sent.estimated_pomodoros
                   /\ got.completed_pomodoros = 0
                   /\ got.category = IF Truthy(sent.category_id) THEN sent.category_id
                                     ELSE None
                   /\ got.tags = sent.tag_ids
       /\ (resp'.op = "create_task" /\ resp'.status = 200)
            => LET mine(table) == {t \in DOMAIN table : Some(table[t].user) = resp'.uid}
               IN  Cardinality(mine(tasks')) = Cardinality(mine(tasks)) + 1]_vars

\* C15: a successful update_task with category_id = 0 leaves the task
\* without a category, one without category_id leaves the category as it
\* was, and one with the id of a category of the caller makes it the task's
\* category; an update that names such a category and supplies nothing the
\* store refuses succeeds.
OwnCategory(category_id) ==
    /\ Truthy(category_id)
    /\ Val(category_id) \in DOMAIN categories
    /\ Some(categories[Val(category_id)].user) = resp'.uid

UpdateSetsCategory ==
    [][UpdateServed /\ resp'.uid /= None /\ Some(OldTask.user) = resp'.uid =>
          /\ resp'.status = 200 /\ Filed.category_id = Some(0)
               => NewTask.category = None
          /\ resp'.status = 200 /\ Filed.category_id = None
               => NewTask.category = OldTask.category
          /\ resp'.status = 200 /\ OwnCategory(Filed.category_id)
               => NewTask.category = Filed.category_id
          /\ (\/ Filed.category_id \in {None, Some(0)}
              \/ OwnCategory(Filed.category_id))
             /\ Filed.completed_pomodoros /= Some(0 - 1)
               => resp'.status = 200]_vars

\* Task 1, which was in category 1, has been updated with category_id = 0.
UpdateSetsCategoryWitness ==
    /\ resp.op = "update_task" /\ resp.status = 200 /\ resp.id = 1
    /\ hist.request.data /= None
    /\ Val(hist.request.data).category_id = Some(0)
    /\ tasks[1].category = None

\* C16: a successful update_task that supplies tag_ids leaves the task with
\* exactly the supplied tags (an empty list with none), and one that omits
\* tag_ids leaves the tags as they were.
UpdateReplacesTags ==
    [][UpdateServed /\ resp'.status = 200 =>
          /\ Filed.tag_ids = None => NewTask.tags = OldTask.tags
          /\ Filed.tag_ids /= None => NewTask.tags = Val(Filed.tag_ids)]_vars

\* ------------------------------------------------------------ the label shelf
\* User 1 owns categories 1 and 2, tags 1 and 2 and every task: task 1 is in
\* category 1 with both tags, the others in category 2 with tag 2.  User 2
\* owns category 3 and tag 3.  Either user deletes categories and tags.
InitLabels ==
    /\ users = [u \in {1, 2} |-> UserRow(u)]
    /\ settings = [s \in {1, 2} |-> DefaultSettings(s)]
    /\ tokens = {IssuedAt(1, 1).token, IssuedAt(2, 1).token}
    /\ categories = [c \in {1, 2, 3} |-> LabelRow(IF c = 3 THEN 2 ELSE 1)]
    /\ tags = [g \in {1, 2, 3} |-> LabelRow(IF g = 3 THEN 2 ELSE 1)]
    /\ tasks = [t \in TaskIds |->
                  [TaskRow(1) EXCEPT !.category = IF t = 1 THEN Some(1) ELSE Some(2),
                                     !.tags = IF t = 1 THEN {1, 2} ELSE {2},
                                     !.created_at = 0, !.updated_at = 0]]
    /\ sessions = << >>
    /\ nextId = [user |-> 3, setting |-> 3, category |-> 4, tag |-> 4,
                 task |-> MaxTasks + 1, session |-> 1]
    /\ now = 1
    /\ inflight = NoneInFlight
    /\ resp = Response("none", None, 0, 0, {}, << >>)
    /\ hist = HistInit

LabelIds == {1, 2, 3}

ShelfDeleteCategory ==
    \E tok \in DeskTokens, category_id \in LabelIds :
        /\ delete_category(tok, category_id)
        /\ UNCHANGED <<now, hist, inflight>>

ShelfDeleteTag ==
    \E tok \in DeskTokens, tag_id \in LabelIds :
        /\ delete_tag(tok, tag_id)
        /\ UNCHANGED <<now, hist, inflight>>

ShelfGetTask ==
    \E tok \in DeskTokens, task_id \in TaskIds :
        /\ get_task(tok, task_id)
        /\ UNCHANGED <<now, hist, inflight>>

NextLabels ==
    \/ ShelfDeleteCategory
    \/ ShelfDeleteTag
    \/ ShelfGetTask

SpecLabels == InitLabels /\ [][NextLabels]_vars

\* ------------------------------------------------------------ label claims
\* C17: a successful delete_category removes the category and leaves the
\* same tasks, each as it was except that a task of the category has no
\* category.
DeleteCategoryKeepsTasks ==
    [][resp'.op = "delete_category" /\ resp'.status = 200 =>
          /\ resp'.id \in DOMAIN categories /\ resp'.id \notin DOMAIN categories'
          /\ DOMAIN tasks' = DOMAIN tasks
          /\ \A t \in DOMAIN tasks :
                tasks'[t] = [tasks[t] EXCEPT !.category =
                                IF @ = Some(resp'.id) THEN None ELSE @]]_vars

\* Category 1 has been deleted and task 1, which was in it, is still there.
DeleteCategoryKeepsTasksWitness ==
    /\ resp.op = "delete_category" /\ resp.status = 200 /\ resp.id = 1
    /\ 1 \notin DOMAIN categories
    /\ 1 \in DOMAIN tasks /\ tasks[1].category = None /\ tasks[1].tags = {1, 2}

\* C18: a successful delete_tag removes the tag and leaves the same tasks,
\* each as it was except that its tag set has lost the deleted tag: no task
\* carries the tag afterwards and every other attachment is as before.
DeleteTagDetaches ==
    [][resp'.op = "delete_tag" /\ resp'.status = 200 =>
          /\ resp'.id \in DOMAIN tags /\ resp'.id \notin DOMAIN tags'
          /\ DOMAIN tasks' = DOMAIN tasks
          /\ \A t \in DOMAIN tasks :
                /\ resp'.id \notin tasks'[t].tags
                /\ tasks'[t] = [tasks[t] EXCEPT !.tags = @ \ {resp'.id}]]_vars

\* Tag 1 has been deleted; task 1, which carried tags 1 and 2, keeps tag 2.
DeleteTagDetachesWitness ==
    /\ resp.op = "delete_tag" /\ resp.status = 200 /\ resp.id = 1
    /\ 1 \notin DOMAIN tags
    /\ 1 \in DOMAIN tasks /\ tasks[1].tags = {2} /\ tasks[1].category = Some(1)

\* ------------------------------------------------------------ the task removal
\* User 1 owns every task and every session: session s is a completed work
\* session of task s (of the last task where there are more sessions than
\* tasks), counted in the task's counter.  The user deletes tasks and
\* sessions and reads tasks.
LinkedTask(s) == IF s <= MaxTasks THEN s ELSE MaxTasks

InitRemoval ==
    /\ users = [u \in {1, 2} |-> UserRow(u)]
    /\ settings = [s \in {1, 2} |-> DefaultSettings(s)]
    /\ tokens = {IssuedAt(1, 1).token}
    /\ categories = << >>
    /\ tags = << >>
    /\ tasks = [t \in TaskIds |->
                  [TaskRow(1) EXCEPT !.completed_pomodoros =
                      Cardinality({s \in SessionIds : LinkedTask(s) = t})]]
    /\ sessions = [s \in SessionIds |->
                     [user |-> 1, task |-> Some(LinkedTask(s)), start_time |-> 1,
                      end_time |-> Some([at |-> 1, tz |-> "aware"]),
                      duration |-> 1500, type |-> "work", is_completed |-> TRUE]]
    /\ nextId = [user |-> 3, setting |-> 3, category |-> 1, tag |-> 1,
                 task |-> MaxTasks + 1, session |-> MaxSessions + 1]
    /\ now = 1
    /\ inflight = NoneInFlight
    /\ resp = Response("none", None, 0, 0, {}, << >>)
    /\ hist = HistInit

RemovalGetTask ==
    \E tok \in DeskTokens, task_id \in 1..(MaxTasks + 1) :
        /\ get_task(tok, task_id)
        /\ UNCHANGED <<now, hist, inflight>>

NextRemoval ==
    \/ DeleteTask(DeskTokens)
    \/ DeleteSession(DeskTokens)
    \/ RemovalGetTask

SpecRemoval == InitRemoval /\ [][NextRemoval]_vars

\* ------------------------------------------------------------ removal claims
\* C19: a successful delete_task leaves the same sessions, each as it was
\* except that a session of the deleted task has no task; and a
\* delete_session of a session whose task has been deleted leaves every
\* task with its counter.
DeleteTaskKeepsSessions ==
    [][/\ resp'.op = "delete_task" /\ resp'.status = 200
            => /\ resp'.id \in DOMAIN tasks /\ resp'.id \notin DOMAIN tasks'
               /\ DOMAIN sessions' = DOMAIN sessions
               /\ \A s \in DOMAIN sessions :
                     sessions'[s] = [sessions[s] EXCEPT !.task =
                                        IF @ = Some(resp'.id) THEN None ELSE @]
       /\ (/\ resp'.op = "delete_session" /\ resp'.id \in DOMAIN sessions
           /\ sessions[resp'.id].task = None)
            => /\ resp'.status = 200 => resp'.id \notin DOMAIN sessions'
               /\ DOMAIN tasks' = DOMAIN tasks
               /\ \A t \in DOMAIN tasks :
                     tasks'[t].completed_pomodoros = tasks[t].completed_pomodoros]_vars

\* Task 1 is deleted and its session 1 has then been deleted; task 2 still
\* has the one Pomodoro of session 2.
DeleteTaskKeepsSessionsWitness ==
    /\ resp.op = "delete_session" /\ resp.status = 200 /\ resp.id = 1
    /\ 1 \notin DOMAIN tasks /\ 1 \notin DOMAIN sessions
    /\ 2 \in DOMAIN tasks /\ tasks[2].completed_pomodoros = 1
    /\ 2 \in DOMAIN sessions /\ sessions[2].task = Some(2)

\* ------------------------------------------------------------ session claims
\* C20: a session is created with is_completed = false and no end time,
\* and a session with is_completed = true keeps it for as long as it exists.
CompletedIsTerminal ==
    [][/\ \A s \in DOMAIN sessions' \ DOMAIN sessions :
             ~sessions'[s].is_completed /\ sessions'[s].end_time = None
       /\ \A s \in DOMAIN sessions \cap DOMAIN sessions' :
             sessions[s].is_completed => sessions'[s].is_completed]_vars

\* ------------------------------------------------------------ listing claims
\* How high a priority is: high above medium above low.
Rank(priority) ==
    IF priority = "high" THEN 3 ELSE IF priority = "medium" THEN 2 ELSE 1

\* C21: in a list_tasks answer every task of a higher priority comes before
\* every task of a lower one; among tasks of one priority an earlier due
\* date comes first, and among those of one due date the earlier created.
ListIsOrdered ==
    resp.op = "list_tasks" /\ resp.status = 200 =>
        \A i, j \in DOMAIN resp.data :
            i < j =>
                LET a == tasks[resp.data[i]]
                    b == tasks[resp.data[j]]
                IN  /\ Rank(a.priority) >= Rank(b.priority)
                    /\ (a.priority = b.priority /\ a.due_date /= None
                        /\ b.due_date /= None)
                         => Val(a.due_date) <= Val(b.due_date)
                    /\ (a.priority = b.priority /\ a.due_date = b.due_date)
                         => a.created_at <= b.created_at

\* ------------------------------------------------------------ the progress report
\* User 1 owns every task, none with a completed Pomodoro: task 1 is
\* estimated at MaxSessions Pomodoros, the others at none.  The user starts
\* and completes sessions, with the first task, the last or none, and reads
\* those tasks and their analytics.
InitProgress ==
    /\ users = [u \in {1, 2} |-> UserRow(u)]
    /\ settings = [s \in {1, 2} |-> DefaultSettings(s)]
    /\ tokens = {IssuedAt(1, 1).token}
    /\ categories = << >>
    /\ tags = << >>
    /\ tasks = [t \in TaskIds |->
                  [TaskRow(1) EXCEPT !.estimated_pomodoros =
                                        IF t = 1 THEN MaxSessions ELSE 0]]
    /\ sessions = << >>
    /\ nextId = [user |-> 3, setting |-> 3, category |-> 1, tag |-> 1,
                 task |-> MaxTasks + 1, session |-> 1]
    /\ now = 1
    /\ inflight = NoneInFlight
    /\ resp = Response("none", None, 0, 0, {}, << >>)
    /\ hist = HistInit

ProgressStart ==
    \E tok \in OwnerTokens, task_id \in {None, Some(1), Some(MaxTasks)},
       type \in {"work", "short_break"} :
        /\ nextId.session <= MaxSessions
        /\ start_session(tok, [task_id |-> task_id, type |-> type, duration |-> 1500])
        /\ UNCHANGED <<now, hist, inflight>>

ProgressComplete ==
    \E tok \in OwnerTokens, session_id \in SessionIds, is_completed \in BOOLEAN :
        LET data == [end_time |-> [at |-> now, tz |-> "aware"],
                     is_completed |-> is_completed]
        IN  /\ CounterRoom(session_id)
            /\ complete_session(tok, session_id, data)
            /\ hist' = [CompleteLogged(session_id, data) EXCEPT
                           !.request = [NoRequest EXCEPT !.data = Some(data)]]
            /\ UNCHANGED <<now, inflight>>

ProgressGetTask ==
    \E tok \in OwnerTokens, task_id \in {1, MaxTasks} :
        /\ get_task(tok, task_id)
        /\ UNCHANGED <<now, hist, inflight>>

ProgressGetTaskAnalytics ==
    \E tok \in OwnerTokens, task_id \in {1, MaxTasks} :
        /\ get_task_analytics(tok, task_id)
        /\ UNCHANGED <<now, hist, inflight>>

NextProgress ==
    \/ ProgressStart
    \/ ProgressComplete
    \/ ProgressGetTask
    \/ ProgressGetTaskAnalytics

SpecProgress == InitProgress /\ [][NextProgress]_vars

\* ------------------------------------------------------------ progress claims
\* The work sessions linked to a task, and whether the task, estimated at
\* k > 0 Pomodoros, has had k of them started and each completed once.
WorkOf(t) ==
    {s \in DOMAIN sessions : sessions[s].task = Some(t) /\ sessions[s].type = "work"}

AllDoneOnce(t) ==
    /\ tasks[t].estimated_pomodoros > 0
    /\ Cardinality(WorkOf(t)) = tasks[t].estimated_pomodoros
    /\ \A s \in WorkOf(t) : hist.calls[s] = 1

\* C24: a successful complete_session with is_completed = true on a work
\* session linked to a task raises that task's completed_pomodoros by one,
\* on a first call and on a repeated one, and changes no other task's; with
\* is_completed = false, on a break session or on a session without a task
\* it leaves every task's completed_pomodoros; in each case the session
\* gets the supplied end time and flag and no other session changes.
CompleteSessionEffect ==
    [][resp'.op = "complete_session" /\ resp'.status = 200 =>
          LET s     == resp'.id
              data  == Val(hist'.request.data)
              bumps == /\ data.is_completed /\ sessions[s].type = "work"
                       /\ sessions[s].task /= None
          IN  /\ DOMAIN tasks' = DOMAIN tasks
              /\ \A t \in DOMAIN tasks :
                    tasks'[t].completed_pomodoros =
                        IF bumps /\ sessions[s].task = Some(t)
                        THEN tasks[t].completed_pomodoros + 1
                        ELSE tasks[t].completed_pomodoros
              /\ DOMAIN sessions' = DOMAIN sessions
              /\ sessions'[s].end_time = Some(data.end_time)
              /\ sessions'[s].is_completed = data.is_completed
              /\ \A o \in DOMAIN sessions \ {s} : sessions'[o] = sessions[o]]_vars

\* Session 1, a work session of task 1, has been completed twice and task 1
\* shows two completed Pomodoros.
CompleteSessionEffectWitness ==
    /\ resp.op = "complete_session" /\ resp.status = 200 /\ resp.id = 1
    /\ hist.calls[1] = 2 /\ hist.request.data /= None
    /\ sessions[1].task = Some(1) /\ sessions[1].type = "work"
    /\ tasks[1].completed_pomodoros = 2

\* C22: once a task estimated at k > 0 Pomodoros, with none completed, has
\* had k linked work sessions started and each completed once with
\* is_completed = true, get_task shows completed_pomodoros = k and the task
\* analytics show completion_percentage = 100.0; for a task estimated at 0
\* the task analytics show completion_percentage = 0.
EstimateReached ==
    /\ (resp.op = "get_task" /\ resp.status = 200 /\ AllDoneOnce(resp.id))
         => resp.data.completed_pomodoros = tasks[resp.id].estimated_pomodoros
    /\ (resp.op = "get_task_analytics" /\ resp.status = 200)
         => /\ AllDoneOnce(resp.id) => resp.data.completion_percentage = 1000
            /\ tasks[resp.id].estimated_pomodoros = 0
                 => resp.data.completion_percentage = 0

\* Task 1 has had all its sessions completed once and its analytics read.
EstimateReachedWitness ==
    /\ resp.op = "get_task_analytics" /\ resp.status = 200 /\ resp.id = 1
    /\ AllDoneOnce(1) /\ tasks[1].estimated_pomodoros = MaxSessions
    /\ resp.data.completion_percentage = 1000

\* ------------------------------------------------------------ interleaved session requests
\* The session handlers run without a lock or a transaction: between
\* `task = session.task`, which loads the task row into the request, and
\* `task.save()`, which writes every column of the loaded row back, other
\* requests are served.  A request in flight holds its operation, its
\* session, the caller and the row it loaded.
InFlight(op, uid, session_id, task_id) ==
    Some([op |-> op, uid |-> uid, session |-> session_id, task_id |-> task_id,
          task |-> tasks[task_id]])

\* The row task.save() writes: the loaded row with its counter moved.
saved_row_reloaded(r) ==
    LET f == Val(inflight[r])
    IN  [tasks[f.task_id] EXCEPT
           !.completed_pomodoros = IF f.op = "complete_session" THEN @ + 1 ELSE @ - 1,
           !.updated_at = now]

saved_row(r) ==
    LET f == Val(inflight[r])
    IN  [f.task EXCEPT
           !.completed_pomodoros = IF f.op = "complete_session" THEN @ + 1 ELSE @ - 1,
           !.updated_at = now]

\* complete_session up to `task = session.task`.
complete_session_load(r, tok, session_id, data) ==
    LET user_id  == get_user_id_from_token(tok)
        uid      == Val(user_id)
        exc      == get_object_or_404(sessions, session_id, uid)
        end_time == IF data.end_time.tz = "naive"
                    THEN make_aware(data.end_time) ELSE data.end_time
        session  == [sessions[session_id] EXCEPT !.end_time = Some(end_time),
                                                 !.is_completed = data.is_completed]
    IN  IF ~Truthy(user_id)
        THEN /\ resp' = Response("complete_session", None, 401, session_id, {}, << >>)
             /\ UNCHANGED <<store, inflight>>
        ELSE IF exc /= "none"
        THEN /\ resp' = Response("complete_session", user_id, pomodoro_except(exc),
                                 session_id, {}, << >>)
             /\ UNCHANGED <<store, inflight>>
        ELSE /\ sessions' = [sessions EXCEPT ![session_id] = session]
             /\ IF completes_pomodoro(session)
                THEN /\ inflight' = [inflight EXCEPT ![r] =
                                        InFlight("complete_session", user_id, session_id,
                                                 Val(session.task))]
                     /\ UNCHANGED resp
                ELSE /\ resp' = Response("complete_session", user_id, 200, session_id,
                                         session_body(session_id, session.task), << >>)
                     /\ UNCHANGED inflight
             /\ UNCHANGED <<users, settings, tokens, categories, tags, tasks, nextId>>

\* complete_session from `task.completed_pomodoros += 1` on.
complete_session_save(r) ==
    LET f == Val(inflight[r])
    IN  /\ inflight[r] /= None /\ f.op = "complete_session"
        /\ tasks' = With(tasks, f.task_id, saved_row(r))
        /\ resp' = Response("complete_session", f.uid, 200, f.session,
                            session_body(f.session, Some(f.task_id)), << >>)
        /\ inflight' = [inflight EXCEPT ![r] = None]
        /\ UNCHANGED <<users, settings, tokens, categories, tags, sessions, nextId>>

\* delete_session up to `task = session.task`.
delete_session_load(r, tok, session_id) ==
    LET user_id == get_user_id_from_token(tok)
        uid     == Val(user_id)
        exc     == get_object_or_404(sessions, session_id, uid)
        session == sessions[session_id]
    IN  IF ~Truthy(user_id)
        THEN /\ resp' = Response("delete_session", None, 401, session_id, {}, << >>)
             /\ UNCHANGED <<store, inflight>>
        ELSE IF exc /= "none"
        THEN /\ resp' = Response("delete_session", user_id, pomodoro_except(exc),
                                 session_id, {}, << >>)
             /\ UNCHANGED <<store, inflight>>
        ELSE IF was_counted(session)
        THEN /\ inflight' = [inflight EXCEPT ![r] =
                                InFlight("delete_session", user_id, session_id,
                                         Val(session.task))]
             /\ UNCHANGED <<store, resp>>
        ELSE /\ sessions' = Without(sessions, session_id)
             /\ resp' = Response("delete_session", user_id, 200, session_id, {}, << >>)
             /\ UNCHANGED <<users, settings, tokens, categories, tags, tasks, nextId,
                            inflight>>

\* delete_session from `if task.completed_pomodoros > 0` on.
delete_session_save(r) ==
    LET f == Val(inflight[r])
    IN  /\ inflight[r] /= None /\ f.op = "delete_session"
        /\ tasks' = IF f.task.completed_pomodoros > 0
                    THEN With(tasks, f.task_id, saved_row(r)) ELSE tasks
        /\ sessions' = Without(sessions, f.session)
        /\ resp' = Response("delete_session", f.uid, 200, f.session, {}, << >>)
        /\ inflight' = [inflight EXCEPT ![r] = None]
        /\ UNCHANGED <<users, settings, tokens, categories, tags, nextId>>

\* ------------------------------------------------------------ the race
\* User 1 owns task 1, with no completed Pomodoro, and every session, each
\* an open work session of task 1.  Requests of user 1 are served in two
\* slots; the log counts the requests that move the counter of the task.
InitRace ==
    /\ users = [u \in {1, 2} |-> UserRow(u)]
    /\ settings = [s \in {1, 2} |-> DefaultSettings(s)]
    /\ tokens = {IssuedAt(1, 1).token}
    /\ categories = << >>
    /\ tags = << >>
    /\ tasks = [t \in {1} |-> TaskRow(1)]
    /\ sessions = [s \in SessionIds |->
                     [user |-> 1, task |-> Some(1), start_time |-> 1, end_time |-> None,
                      duration |-> 1500, type |-> "work", is_completed |-> FALSE]]
    /\ nextId = [user |-> 3, setting |-> 3, category |-> 1, tag |-> 1, task |-> 2,
                 session |-> MaxSessions + 1]
    /\ now = 1
    /\ inflight = NoneInFlight
    /\ resp = Response("none", None, 0, 0, {}, << >>)
    /\ hist = HistInit

RaceCompleteLoad ==
    \E r \in Slots, tok \in OwnerTokens, session_id \in SessionIds,
       is_completed \in BOOLEAN :
        LET data == [end_time |-> [at |-> now, tz |-> "aware"],
                     is_completed |-> is_completed]
        IN  /\ inflight[r] = None
            /\ CounterRoom(session_id)
            /\ complete_session_load(r, tok, session_id, data)
            /\ hist' = IF inflight'[r] /= None
                       THEN [hist EXCEPT !.completions[1] = @ + 1] ELSE hist
            /\ UNCHANGED now

RaceCompleteSave ==
    \E r \in Slots :
        /\ complete_session_save(r)
        /\ UNCHANGED <<now, hist>>

RaceDeleteLoad ==
    \E r \in Slots, tok \in OwnerTokens, session_id \in SessionIds :
        /\ inflight[r] = None
        /\ delete_session_load(r, tok, session_id)
        /\ hist' = IF inflight'[r] /= None
                   THEN [hist EXCEPT !.deletions[1] = @ + 1] ELSE hist
        /\ UNCHANGED now

RaceDeleteSave ==
    \E r \in Slots :
        /\ delete_session_save(r)
        /\ UNCHANGED <<now, hist>>

NextRace ==
    \/ RaceCompleteLoad
    \/ RaceCompleteSave
    \/ RaceDeleteLoad
    \/ RaceDeleteSave

SpecRace == InitRace /\ [][NextRace]_vars

\* ------------------------------------------------------------ race claims
\* C23: when a request saves the task from a row it loaded before another
\* request moved the task's counter, the counter it writes is computed from
\* the loaded row, not from the stored one: a complete_session leaves the
\* counter different from the stored counter plus one, so an update is
\* lost.
StaleSaveLosesUpdate ==
    [][\A r \in Slots :
          (/\ inflight[r] /= None /\ inflight'[r] = None
           /\ Val(inflight[r]).task.completed_pomodoros
                 /= tasks[Val(inflight[r]).task_id].completed_pomodoros)
            => LET f      == Val(inflight[r])
                   stored == tasks[f.task_id].completed_pomodoros
                   loaded == f.task.completed_pomodoros
                   after  == tasks'[f.task_id].completed_pomodoros
               IN  IF f.op = "complete_session"
                   THEN after = loaded + 1 /\ after /= stored + 1
                   ELSE after = IF loaded > 0 THEN loaded - 1 ELSE stored]_vars

\* Two complete_session requests for sessions 1 and 2 have both been served
\* and task 1 shows one completed Pomodoro.
StaleSaveLosesUpdateWitness ==
    /\ inflight = NoneInFlight
    /\ hist.completions[1] = 2 /\ hist.deletions[1] = 0
    /\ \A s \in {1, 2} : s \in DOMAIN sessions /\ sessions[s].is_completed
    /\ tasks[1].completed_pomodoros = 1

\* ------------------------------------------------------------ the statistics
\* User 1 owns tasks 1 and 2 and every session, none completed yet:
\* sessions 1 and 2 are work on task 1 started on day 1, session 3 is work
\* on task 2 started on day 2, and the later ones, started on day 2, are in
\* turn a break without a task and work on task 2.  It is day 2.  The user
\* completes open sessions, deletes sessions and reads the statistics.
StatsSession(s) ==
    [user |-> 1,
     task |-> IF s < 3 THEN Some(1) ELSE IF s > 3 /\ s % 2 = 0 THEN None ELSE Some(2),
     start_time |-> IF s < 3 THEN 1 ELSE 2, end_time |-> None, duration |-> 1500,
     type |-> IF s > 3 /\ s % 2 = 0 THEN "short_break" ELSE "work",
     is_completed |-> FALSE]

InitStats ==
    /\ users = [u \in {1, 2} |-> UserRow(u)]
    /\ settings = [s \in {1, 2} |-> DefaultSettings(s)]
    /\ tokens = {IssuedAt(1, 1).token}
    /\ categories = << >>
    /\ tags = << >>
    /\ tasks = [t \in {1, 2} |-> TaskRow(1)]
    /\ sessions = [s \in 1..(MaxWork + 1) |-> StatsSession(s)]
    /\ nextId = [user |-> 3, setting |-> 3, category |-> 1, tag |-> 1, task |-> 3,
                 session |-> MaxWork + 2]
    /\ now = 2
    /\ inflight = NoneInFlight
    /\ resp = Response("none", None, 0, 0, {}, << >>)
    /\ hist = HistInit

StatsComplete ==
    \E tok \in OwnerTokens, session_id \in 1..(MaxWork + 1) :
        /\ session_id \in DOMAIN sessions => ~sessions[session_id].is_completed
        /\ complete_session(tok, session_id,
                            [end_time |-> [at |-> now, tz |-> "aware"],
                             is_completed |-> TRUE])
        /\ UNCHANGED <<now, hist, inflight>>

StatsDelete ==
    \E tok \in OwnerTokens, session_id \in 1..(MaxWork + 1) :
        /\ delete_session(tok, session_id)
        /\ UNCHANGED <<now, hist, inflight>>

StatsGet ==
    \E tok \in OwnerTokens, days \in {0, 1} :
        /\ get_stats(tok, days)
        /\ hist' = [hist EXCEPT !.request = [NoRequest EXCEPT !.days = Some(days)]]
        /\ UNCHANGED <<now, inflight>>

NextStats ==
    \/ StatsComplete
    \/ StatsDelete
    \/ StatsGet

SpecStats == InitStats /\ [][NextStats]_vars

\* ------------------------------------------------------------ statistics claims
\* The sessions of the caller in the window of the request just served,
\* the completed ones, and the completed work sessions per day and per task.
InWindow ==
    {s \in DOMAIN sessions :
        /\ Some(sessions[s].user) = resp.uid
        /\ sessions[s].start_time >= now - Val(hist.request.days)}

DoneInWindow == {s \in InWindow : sessions[s].is_completed}

WorkDoneOn(d) ==
    Cardinality({s \in DoneInWindow :
                    sessions[s].type = "work" /\ sessions[s].start_time = d})

WorkDoneFor(t) ==
    Cardinality({s \in DoneInWindow :
                    sessions[s].type = "work" /\ sessions[s].task = Some(t)})

StatsCounts ==
    /\ resp.data.total_sessions = Cardinality(InWindow)
    /\ resp.data.total_completed = Cardinality(DoneInWindow)
    /\ IF \E d \in 1..now : WorkDoneOn(d) > 0
       THEN /\ resp.data.most_productive_day /= None
            /\ \A d \in 1..now :
                  /\ WorkDoneOn(d) <= WorkDoneOn(Val(resp.data.most_productive_day))
                  \* the rows come newest first: the latest day wins a tie
                  /\ WorkDoneOn(d) = WorkDoneOn(Val(resp.data.most_productive_day))
                       => d <= Val(resp.data.most_productive_day)
       ELSE resp.data.most_productive_day = None
    /\ IF \E t \in DOMAIN tasks : WorkDoneFor(t) > 0
       THEN /\ resp.data.most_focused_task_id /= None
            /\ \A t \in DOMAIN tasks :
                  WorkDoneFor(t) <= WorkDoneFor(Val(resp.data.most_focused_task_id))
       ELSE resp.data.most_focused_task_id = None

StatsServed == resp.op = "get_stats" /\ resp.status = 200

CounterMatchesSessions ==
    \A t \in DOMAIN tasks :
        tasks[t].completed_pomodoros =
            Cardinality({s \in DOMAIN sessions :
                            /\ sessions[s].type = "work" /\ sessions[s].is_completed
                            /\ sessions[s].task = Some(t)})

\* ------------------------------------------------------------ the counts
\* User 1 owns task 1, which shows the one Pomodoro of session 1, a
\* completed work session; session 2 is an open one.  The user creates and
\* updates tasks with counts of either sign and completes and deletes
\* sessions.
InitCounts ==
    /\ users = [u \in {1, 2} |-> UserRow(u)]
    /\ settings = [s \in {1, 2} |-> DefaultSettings(s)]
    /\ tokens = {IssuedAt(1, 1).token}
    /\ categories = << >>
    /\ tags = << >>
    /\ tasks = [t \in {1} |-> [TaskRow(1) EXCEPT !.completed_pomodoros = 1]]
    /\ sessions = [s \in {1, 2} |->
                     [user |-> 1, task |-> Some(1), start_time |-> 1,
                      end_time |-> IF s = 1 THEN Some([at |-> 1, tz |-> "aware"])
                                   ELSE None,
                      duration |-> 1500, type |-> "work", is_completed |-> s = 1]]
    /\ nextId = [user |-> 3, setting |-> 3, category |-> 1, tag |-> 1, task |-> 2,
                 session |-> 3]
    /\ now = 1
    /\ inflight = NoneInFlight
    /\ resp = Response("none", None, 0, 0, {}, << >>)
    /\ hist = HistInit

Counts == {0 - 1, 0, 1}

CountsCreate ==
    \E tok \in OwnerTokens, estimated_pomodoros \in Counts :
        LET task_data == [title |-> <<"b">>, description |-> None, status |-> "pending",
                          priority |-> "medium", due_date |-> None,
                          estimated_pomodoros |-> estimated_pomodoros,
                          category_id |-> None, tag_ids |-> {}]
        IN  /\ nextId.task <= MaxTasks
            /\ create_task(tok, task_data)
            /\ UNCHANGED <<now, hist, inflight>>

CountsUpdate ==
    \E tok \in OwnerTokens, task_id \in {1, MaxTasks},
       estimated_pomodoros \in {None} \cup {Some(c) : c \in Counts},
       completed_pomodoros \in {None} \cup {Some(c) : c \in Counts} :
        LET task_data == [NoUpdate EXCEPT !.estimated_pomodoros = estimated_pomodoros,
                                          !.completed_pomodoros = completed_pomodoros]
        IN  /\ update_task(tok, task_id, task_data)
            /\ UNCHANGED <<now, hist, inflight>>

CountsComplete ==
    \E tok \in OwnerTokens, session_id \in {1, 2}, is_completed \in BOOLEAN :
        LET data == [end_time |-> [at |-> now, tz |-> "aware"],
                     is_completed |-> is_completed]
        IN  /\ tasks[1].completed_pomodoros < MaxPomodoros
            /\ complete_session(tok, session_id, data)
            /\ UNCHANGED <<now, hist, inflight>>

CountsDelete ==
    \E tok \in OwnerTokens, session_id \in {1, 2} :
        /\ delete_session(tok, session_id)
        /\ UNCHANGED <<now, hist, inflight>>

NextCounts ==
    \/ CountsCreate
    \/ CountsUpdate
    \/ CountsComplete
    \/ CountsDelete

SpecCounts == InitCounts /\ [][NextCounts]_vars

\* ------------------------------------------------------------ count claims
\* C27: under create_task, update_task (also with estimated_pomodoros or
\* completed_pomodoros supplied), complete_session and delete_session every
\* task's estimated_pomodoros and completed_pomodoros are at least 0.
CountsAreNonNegative ==
    \A t \in DOMAIN tasks :
        tasks[t].estimated_pomodoros >= 0 /\ tasks[t].completed_pomodoros >= 0

\* An update of task 1 with a negative count has just been refused by the
\* store, after the session operations brought its counter back to 0.
CountsAreNonNegativeWitness ==
    /\ resp.op = "update_task" /\ resp.id = 1 /\ resp.status = 500
    /\ tasks[1].completed_pomodoros = 0
    /\ sessions = << >>

\* ------------------------------------------------------------ interleaved sign-ups
\* register has no transaction and no lock, so another request can be served
\* between its checks and its create_user.  register_check is the handler up
\* to the password validation, register_create the rest.
register_check(r, data) ==
    LET email == EmailStr(data.email)
        fail(status, detail) ==
            /\ resp' = Response("register", None, status, 0, {}, [detail |-> detail])
            /\ UNCHANGED <<store, inflight>>
    IN  IF username_exists(data.username) THEN fail(400, "username exists")
        ELSE IF email_exists(email) THEN fail(400, "email exists")
        ELSE IF ~validate_password(data.password) THEN fail(400, "weak password")
        ELSE /\ inflight' = [inflight EXCEPT ![r] = Some([op |-> "register", data |-> data])]
             /\ UNCHANGED <<store, resp>>

\* AbstractUser.username is unique, AbstractUser.email is not: the store
\* refuses only a row whose username is taken.
register_create(r) ==
    LET data == Val(inflight[r]).data
        id   == nextId.user
        row  == [username |-> normalize_username(data.username),
                 email |-> normalize_email(EmailStr(data.email)),
                 password |-> data.password]
    IN  /\ inflight' = [inflight EXCEPT ![r] = None]
        /\ IF username_exists(row.username)
           THEN /\ resp' = Response("register", None, 500, 0, {},
                                    [detail |-> "IntegrityError"])
                /\ UNCHANGED store
           ELSE /\ users' = With(users, id, row)
                /\ settings' = With(settings, nextId.setting, DefaultSettings(id))
                /\ tokens' = tokens \cup {create_token(id)}
                /\ nextId' = [nextId EXCEPT !.user = id + 1, !.setting = @ + 1]
                /\ resp' = Response("register", None, 200, id, {<<"user", id>>},
                                    token_data(id, row))
                /\ UNCHANGED <<categories, tags, tasks, sessions>>

\* ------------------------------------------------------------ the sign-up race
\* An empty store and two server workers, each serving one register request
\* at a time.
Registering == {r \in Slots : inflight[r] /= None}

SignupCheck ==
    \E r \in Slots, data \in SignUps :
        /\ inflight[r] = None
        /\ nextId.user + Cardinality(Registering) <= MaxUsers
        /\ register_check(r, data)
        /\ UNCHANGED <<now, hist>>

SignupCreate ==
    \E r \in Slots :
        /\ inflight[r] /= None
        /\ register_create(r)
        /\ UNCHANGED <<now, hist>>

NextSignup ==
    \/ SignupCheck
    \/ SignupCreate

SpecSignup == InitAuth /\ [][NextSignup]_vars

\* ------------------------------------------------------------ sign-up race claims
\* C28: when two register requests with the same email and different
\* usernames are interleaved between their existence checks and their user
\* creation, no two users ever hold the same email.
NoTwoUsersShareEmail ==
    \A u, v \in DOMAIN users : u /= v => users[u].email /= users[v].email

\* ------------------------------------------------------------ the completion series
\* User 1 owns task 1, created on day 1.  Over the days the user marks it
\* completed, runs work sessions on it, renames it and reads the dashboard.
\* hist.marked is the day on which the task was marked completed.
SeriesCompleteTask ==
    \E tok \in OwnerTokens :
        /\ tasks[1].status /= "completed"
        /\ complete_task(tok, 1)
        /\ hist' = [hist EXCEPT !.marked = Some(now)]
        /\ UNCHANGED <<now, inflight>>

SeriesStart ==
    \E tok \in OwnerTokens :
        /\ nextId.session <= MaxSessions
        /\ start_session(tok, [task_id |-> Some(1), type |-> "work", duration |-> 1500])
        /\ UNCHANGED <<now, hist, inflight>>

SeriesComplete ==
    \E tok \in OwnerTokens, session_id \in SessionIds :
        /\ session_id \in DOMAIN sessions
        /\ ~sessions[session_id].is_completed
        /\ complete_session(tok, session_id,
                            [end_time |-> [at |-> now, tz |-> "aware"],
                             is_completed |-> TRUE])
        /\ UNCHANGED <<now, hist, inflight>>

SeriesDelete ==
    \E tok \in OwnerTokens, session_id \in SessionIds :
        /\ session_id \in DOMAIN sessions
        /\ delete_session(tok, session_id)
        /\ UNCHANGED <<now, hist, inflight>>

SeriesRename ==
    \E tok \in OwnerTokens :
        /\ tasks[1].title /= <<"b">>
        /\ update_task(tok, 1, [NoUpdate EXCEPT !.title = Some(<<"b">>)])
        /\ UNCHANGED <<now, hist, inflight>>

SeriesGet ==
    \E tok \in OwnerTokens :
        /\ get_analytics(tok, MaxDay)
        /\ UNCHANGED <<now, hist, inflight>>

NextSeries ==
    \/ Tick
    \/ SeriesCompleteTask
    \/ SeriesStart
    \/ SeriesComplete
    \/ SeriesDelete
    \/ SeriesRename
    \/ SeriesGet

SpecSeries == InitPomodoro /\ [][NextSeries]_vars

\* ------------------------------------------------------------ completion series claims
\* C29: in the dashboard's task_completion_time_series a completed task is
\* counted on the day it was marked completed, and stays counted on that day
\* after later operations that do not change its status (session
\* completions and deletions that move its counter, an update of another
\* field).
CompletedTaskStaysOnItsDay ==
    (Dashboard /\ hist.marked /= None) =>
        \E i \in DOMAIN resp.data.task_completion_time_series :
            /\ resp.data.task_completion_time_series[i].date = Val(hist.marked)
            /\ resp.data.task_completion_time_series[i].value = 1

\* ------------------------------------------------------------ the profile route
\* GET /auth/user with any Authorization header and any user_id query
\* parameter, or none.  The log keeps the header and the parameter.
ProfileIds == {None} \cup {Some(u) : u \in 1..(MaxUsers + 1)}

ProfileGet ==
    \E tok \in Presented, user_id \in ProfileIds :
        /\ get_user(tok, user_id)
        /\ hist' = [hist EXCEPT !.request = [NoRequest EXCEPT !.token = Some(tok),
                                                              !.data = Some(user_id)]]
        /\ UNCHANGED <<now, inflight>>

NextProfile ==
    \/ Tick
    \/ LoginAgain
    \/ ProfileGet

SpecProfile == InitTokens /\ [][NextProfile]_vars

\* ------------------------------------------------------------ profile claims
\* C30: GET /auth/user answers with a profile only a request presenting a
\* token issued less than 7 days ago, and only with the profile of that
\* token's user; a request with no token or an invalid one receives no
\* profile, whatever user_id it supplies.
ProfileOnlyToTokenOwner ==
    (resp.op = "get_user" /\ resp.status = 200) =>
        \E e \in hist.issued :
            /\ hist.request.token = Some(Some(e.token))
            /\ now < e.at + 7
            /\ resp.id = e.user

=============================================================================
